---- MODULE Spec2Model ----
(***************************************************************************)
(* QueueShield: the FIFO admission queue (a Redis sorted set plus two      *)
(* hashes), the session records (Prisma) and the handlers and periodic     *)
(* tasks that move sessions through their lifecycle.                       *)
(*                                                                         *)
(* Time is counted in minutes.  Date.now() is far larger than any score a  *)
(* request can choose, so the clock starts above the scores PATCH writes.  *)
(***************************************************************************)
EXTENDS Integers, Sequences, FiniteSets, TLC

\* ------------------------------------------------------------------ bounds
MaxSessions == 2          \* session ids 1..MaxSessions
PhantomQueueSize == 1     \* PHANTOM_QUEUE_SIZE, scaled down
BatchSize == 2            \* QUEUE_BATCH_SIZE, scaled down
MaxTime == 4              \* the clock of the queue specifications stops here
FifoMaxTime == 7          \* the clock of the ordering specification stops here
LifeMaxTime == 7          \* the clock of the lifecycle specification stops here
LifeSessions == 1         \* sessions of the lifecycle specification
MaxTicks == 2             \* processQueue calls that may be in flight at once
MaxAdmissions == 1        \* a session admitted this often is not enqueued again
MaxRemovers == 2          \* removeFromQueue calls that may be in flight at once
RemoveSessions == 2       \* sessions of the removal specification
MaxChallenges == 2        \* challenges generateChallenge hands out
PowMaxTime == 7           \* the clock of the proof-of-work specifications stops here
MaxVerifiers == 2         \* verifySolution calls that may be in flight at once
RaceChallenges == 1       \* challenges handed out while calls overlap
MaxCalls == 4             \* RateLimiter.check calls made one after another
MaxLimiters == 2          \* RateLimiter.check calls that may be in flight at once
MaxEvidence == 3          \* BotScore rows recorded for one session
MaxScorers == 2           \* addBotScore calls that may be in flight at once
SuspectTake == 1          \* enforceChallenges: take: 50, scaled down
HighRiskTake == 1         \* enforceChallenges: take: 100, scaled down
StaleTake == 1            \* garbageCollectSessions: take: 500, scaled down
MaxStarts == 2            \* QueueProcessor.start calls that register timers
MaxFirings == 2           \* interval callbacks that run
MaxBuyers == 2            \* POST /api/purchase requests handled
MaxSold == 2              \* purchases completed
MaxTokens == 2            \* tokens drawn for a candidate whose zrem fails

\* ------------------------------------------------------- program constants
AccessTokenTtl == 2       \* ACCESS_TOKEN_TTL_SECONDS = 120 s
StaleQueued == 2          \* garbageCollectSessions: 2 * 60 * 1000 ms
StaleActive == 5          \* garbageCollectSessions: 5 * 60 * 1000 ms
ThresholdLow == 30        \* RISK_THRESHOLD_LOW
ThresholdMedium == 60     \* RISK_THRESHOLD_MEDIUM
ThresholdHigh == 85       \* RISK_THRESHOLD_HIGH
JoinBanScore == 90        \* join route: riskScore >= 90
ScoreCap == 100           \* addBotScore: Math.min(100, ...)
BanTtl == 30              \* banSession: 30 * 60 * 1000 ms
CaptchaFailLimit == 5     \* captcha verify: failedCount >= 5
PowTtl == 5               \* POW_TTL_SECONDS = 300 s
DefaultDifficulty == 18   \* DEFAULT_DIFFICULTY
JoinDifficulty == 18      \* join route: pow.difficulty || 18

Ids == 1..MaxSessions
LifeIds == 1..LifeSessions
RemoveIds == 1..RemoveSessions

\* Session.ipAddress: two addresses, so that sessions may share one.
Ips == {1, 2}
IpOf(s) == 1 + (s % 2)
PhantomIds == (MaxSessions + 1)..(MaxSessions + PhantomQueueSize)
Members == Ids \cup PhantomIds
RiskScores == {10, 70, 87, 95}
CaptchaScores == {70, 87}      \* aggregates after a passed captcha
JoinScores == {10, 95}         \* a score that is enqueued, one that is banned
RaceScores == {10, 70}         \* a score that is left alone, one that is challenged
ClockReadings == {1, 4, 7}     \* the values of Date.now() the handlers see
MarkerReadings == {1, 4, 6, 7, 9, 10}   \* with 1 + POW_TTL and 4 + POW_TTL
PatchPositions == {1}
LeadingZeroBits == {0, 1, 18}   \* what countLeadingZeroBits finds for a nonce
Difficulties == {1, DefaultDifficulty}
RequestDifficulties == {0, 1, DefaultDifficulty}   \* 0: the field is absent
Limits == {0, 1, 2}             \* limit of RateLimiter.check
Windows == {1, 2}               \* windowSeconds of RateLimiter.check
RateReadings == {1, 600, 1001, 1600, 2001, 2600}   \* Date.now() in milliseconds

NoToken == 0
NoEntry == -1
Null == -1

VARIABLES
  now,                  \* Date.now(), in minutes
  status,               \* Session.status; "NONE": no record yet, "DELETED": row deleted
  isBanned,             \* Session.isBanned
  accessToken,          \* Session.accessToken, NoToken when null
  accessTokenExpiresAt, \* Session.accessTokenExpiresAt, Null when null
  lastSeenAt,           \* Session.lastSeenAt
  riskScore,            \* Session.riskScore
  passedCaptcha,        \* a CaptchaAttempt with passed = true exists
  failedCount,          \* number of CaptchaAttempt rows with passed = false
  queue,                \* queueshield:queue, a sorted set of [id, score]
  positions,            \* queueshield:positions, id -> joinedAt
  admitted,             \* queueshield:admitted, id -> accessToken
  issued,               \* access tokens generated so far for each session
  admissions,           \* updates of a session to ADMITTED so far
  joinPending,          \* join requests between createSession and joinQueue
  pq,                   \* processQueue calls in flight
  last,                 \* the last call and what it returned
  rm,                   \* removeFromQueue calls in flight
  challenges,           \* the challenges generateChallenge has returned
  replay,               \* the keys pow:used:<challenge>, each with its expiry
  solved,               \* challenges a verifySolution call has found valid
  spent,                \* challenges a call has found of insufficient difficulty
  pv,                   \* verifySolution calls in flight
  powGate,              \* what verifySolution found for the request of a session
  rlKey,                \* ratelimit:<key>, a sorted set and the expiry of the key
  rlLog,                \* the RateLimiter.check calls made and what they returned
  rlCalls,              \* RateLimiter.check calls in flight
  botScores,            \* the BotScore rows of each session, as created
  riskLevel,            \* Session.riskLevel
  bsCalls,              \* addBotScore calls in flight
  banList,              \* BanList: ipAddress -> expiresAt, Null when no row
  isRunning,            \* queue-processor.ts: let isRunning
  handles,              \* queue-processor.ts: const handles, in push order
  timers,               \* the intervals the event loop holds
  starts,               \* start calls that registered timers so far
  lastCall,             \* the last of the start and stop calls
  firings,              \* interval callbacks run so far
  crashed,              \* a callback's promise was rejected with no handler
  thrown,               \* the tasks whose body has thrown so far
  soldTickets,          \* EventConfig.soldTickets of the active event
  buyCalls,             \* POST /api/purchase requests in flight
  gcCall,               \* garbageCollectSessions between its query and its writes
  ecCall                \* enforceChallenges between its query and its writes

dbVars == <<status, isBanned, accessToken, accessTokenExpiresAt, lastSeenAt,
            riskScore, passedCaptcha, failedCount>>
redisVars == <<queue, positions, admitted>>
powVars == <<challenges, replay, solved, spent, pv>>
rlVars == <<rlKey, rlLog, rlCalls>>
riskVars == <<botScores, riskLevel>>
schedVars == <<isRunning, handles, timers, starts, lastCall, firings, crashed,
               thrown>>
buyVars == <<soldTickets, buyCalls>>
taskVars == <<gcCall, ecCall>>
opsVars == <<bsCalls, schedVars, buyVars, taskVars>>
extVars == <<rm, powVars, powGate, rlVars, riskVars, opsVars, banList>>
vars == <<now, dbVars, redisVars, issued, admissions, joinPending, pq, last,
          extVars>>

\* ------------------------------------------------------ Redis sorted set
Min(a, b) == IF a < b THEN a ELSE b
Max(a, b) == IF a > b THEN a ELSE b
Range(f) == {f[i] : i \in DOMAIN f}

\* Session.riskScore is a float; the model keeps it as an exact fraction
\* num/den in lowest terms with den > 0.
Abs(n) == IF n < 0 THEN 0 - n ELSE n

RECURSIVE Gcd(_, _)
Gcd(a, b) == IF b = 0 THEN a ELSE Gcd(b, a % b)

Rat(n) == [num |-> n, den |-> 1]
Ratio(n, d) ==
  LET g == Gcd(Abs(n), d) IN [num |-> n \div g, den |-> d \div g]
RatGeq(x, n) == x.num >= n * x.den
RatLt(x, n) == x.num < n * x.den
RatMin(n, x) == IF RatLt(x, n) THEN x ELSE Rat(n)

\* updateRiskScore: the level that goes with a score.
RiskLevelOf(x) ==
  IF RatGeq(x, ThresholdHigh) THEN "CRITICAL"
  ELSE IF RatGeq(x, ThresholdMedium) THEN "HIGH"
  ELSE IF RatGeq(x, ThresholdLow) THEN "MEDIUM"
  ELSE "LOW"

\* Sorted-set order: by score, ties by member.
Before(e1, e2) ==
  \/ e1.score < e2.score
  \/ e1.score = e2.score /\ e1.id < e2.id

ZMembers(q) == {e.id : e \in q}
ZCard(q) == Cardinality(q)
ZScore(q, m) == (CHOOSE e \in q : e.id = m).score

\* ZADD that adds a second entry for a member already present.
ZAddDuplicating(q, score, m) == q \cup {[id |-> m, score |-> score]}

\* ZADD: a member already present only has its score replaced.
ZAdd(q, score, m) ==
  {e \in q : e.id # m} \cup {[id |-> m, score |-> score]}

\* ZREM that removes the head of the set when the member is absent.
ZRemOrPop(q, m) ==
  IF m \in ZMembers(q) \/ q = {} THEN {e \in q : e.id # m}
  ELSE q \ {CHOOSE e \in q : \A d \in q : d = e \/ Before(e, d)}

\* ZREM: removing an absent member changes nothing and is no error.
ZRem(q, m) == {e \in q : e.id # m}

\* ZRANK: 0-based rank, Null when absent.
ZRank(q, m) ==
  IF m \notin ZMembers(q) THEN Null
  ELSE LET me == CHOOSE e \in q : e.id = m
       IN Cardinality({e \in q : Before(e, me)})

\* ZRANGE key start stop: the members ranked start..stop, in order.
ZRange(q, start, stop) ==
  LET n == Max(0, Min(ZCard(q) - 1, stop) - start + 1)
  IN [i \in 1..n |->
        (CHOOSE e \in q :
           Cardinality({d \in q : Before(d, e)}) = start + i - 1).id]

\* ------------------------------------------------------------ the records
HasRecord(m) == m \in Ids /\ status[m] \notin {"NONE", "DELETED"}

\* A client learns its session id from the response of the join request.
Known(s) == HasRecord(s) /\ s \notin joinPending

\* What the last call was given and what it returned: the id it was called
\* with, whether that id was a queue member, the batch read, the ids returned.
NoChallenge == [parts |-> 0, nonce |-> 0, timestamp |-> 0, signature |-> <<>>]

NoEvent == [op |-> "none", id |-> 0, queued |-> FALSE, batch |-> <<>>,
            ids |-> <<>>, pos |-> 0, challenge |-> NoChallenge,
            valid |-> FALSE, reason |-> "none", task |-> "none",
            threw |-> FALSE, failed |-> {}, registered |-> 0, old |-> {},
            code |-> 0, body |-> <<>>]

IdlePq == [pc |-> "idle", batch |-> <<>>, i |-> 0, token |-> NoToken,
           out |-> <<>>]

\* No removeFromQueue call has started: the id the calls are given, whether
\* a key held it, what one whole call would leave of the three keys, and
\* where each call stands.
IdleRm == [id |-> 0, found |-> FALSE, one |-> <<>>,
           pc |-> [c \in 1..MaxRemovers |-> "idle"]]

\* A periodic task that is not running; ids are the rows its query returned.
IdleTask == [pc |-> "idle", ids |-> {}]

\* A purchase request: where its handler stands and the session it names.
IdleBuy == [pc |-> "idle", id |-> 0]

\* An addBotScore call that is not running.
IdleBs == [pc |-> "idle", id |-> 0, score |-> [num |-> 0, den |-> 1]]

IdleRl == [pc |-> "idle", now |-> 0, limit |-> 0, window |-> 0, count |-> 0,
           allowed |-> FALSE, remaining |-> 0, retryAfterSeconds |-> 0]

\* No verifySolution call was made for the request.
NoGate == [verified |-> FALSE, difficulty |-> 0]

IdlePv == [pc |-> "idle", challenge |-> NoChallenge, zeroBits |-> 0,
           difficulty |-> 0, valid |-> FALSE, reason |-> "none"]

Init ==
  /\ now = CHOOSE t \in ClockReadings : \A u \in ClockReadings : t <= u
  /\ status = [s \in Ids |-> "NONE"]
  /\ isBanned = [s \in Ids |-> FALSE]
  /\ accessToken = [s \in Ids |-> NoToken]
  /\ accessTokenExpiresAt = [s \in Ids |-> Null]
  /\ lastSeenAt = [s \in Ids |-> Null]
  /\ riskScore = [s \in Ids |-> Rat(0)]
  /\ passedCaptcha = [s \in Ids |-> FALSE]
  /\ failedCount = [s \in Ids |-> 0]
  /\ queue = {}
  /\ positions = [m \in Members |-> NoEntry]
  /\ admitted = [s \in Ids |-> NoToken]
  /\ issued = [s \in Ids |-> 0]
  /\ admissions = [s \in Ids |-> 0]
  /\ joinPending = {}
  /\ pq = [p \in 1..MaxTicks |-> IdlePq]
  /\ last = NoEvent
  /\ rm = IdleRm
  /\ challenges = {}
  /\ replay = {}
  /\ solved = {}
  /\ spent = {}
  /\ pv = [c \in 1..MaxVerifiers |-> IdlePv]
  /\ powGate = [s \in Ids |-> NoGate]
  /\ rlKey = [entries |-> {}, expires |-> Null]
  /\ rlLog = <<>>
  /\ rlCalls = [c \in 1..MaxLimiters |-> IdleRl]
  /\ botScores = [s \in Ids |-> <<>>]
  /\ riskLevel = [s \in Ids |-> "LOW"]
  /\ bsCalls = [c \in 1..MaxScorers |-> IdleBs]
  /\ banList = [ip \in Ips |-> Null]
  /\ isRunning = FALSE
  /\ handles = <<>>
  /\ timers = {}
  /\ starts = 0
  /\ lastCall = "none"
  /\ firings = 0
  /\ crashed = FALSE
  /\ thrown = {}
  /\ soldTickets = 0
  /\ buyCalls = [c \in 1..MaxBuyers |-> IdleBuy]
  /\ gcCall = IdleTask
  /\ ecCall = IdleTask

\* ------------------------------------------------------------------ clock
Tick(limit) ==
  /\ \E t \in ClockReadings : t > now /\ t <= limit /\ now' = t
  /\ last' = NoEvent
  /\ UNCHANGED <<dbVars, redisVars, issued, admissions, joinPending, pq>>
  /\ UNCHANGED extVars

\* QueueManager.removeFromQueue, on each of the three keys.
RemovedQueue(q, S) == {e \in q : e.id \notin S}
RemovedPositions(pos, S) == [m \in Members |-> IF m \in S THEN NoEntry ELSE pos[m]]
RemovedAdmitted(adm, S) == [s \in Ids |-> IF s \in S THEN NoToken ELSE adm[s]]

\* The next session id createSession hands out (uuidv4, never reused).
FreshId == Cardinality({s \in Ids : status[s] # "NONE"}) + 1

\* ----------------------------------------------------- POST /api/queue/join
\* createSession and the risk layers; the request then goes on to JoinDecision.
CreateSession(s, r) ==
  /\ s = FreshId
  /\ s \in Ids
  /\ status' = [status EXCEPT ![s] = "ACTIVE"]
  /\ riskScore' = [riskScore EXCEPT ![s] = Rat(r)]
  /\ riskLevel' = [riskLevel EXCEPT ![s] = RiskLevelOf(Rat(r))]
  /\ lastSeenAt' = [lastSeenAt EXCEPT ![s] = now]
  /\ joinPending' = joinPending \cup {s}
  /\ last' = NoEvent
  /\ UNCHANGED <<now, isBanned, accessToken, accessTokenExpiresAt, passedCaptcha,
                 failedCount, redisVars, issued, admissions, pq>>
  /\ UNCHANGED <<rm, powVars, powGate, rlVars, botScores, opsVars, banList>>

\* QueueManager.joinQueue(s): what it writes and the position it returns.
JoinedQueue(s) == ZAdd(queue, now, s)
JoinedPosition(s) ==
  LET rank == ZRank(JoinedQueue(s), s)
  IN (IF rank = Null THEN 0 ELSE rank) + 1

JoinResult(s) ==
  [NoEvent EXCEPT !.op = "joinQueue", !.id = s,
                  !.queued = s \in ZMembers(queue), !.pos = JoinedPosition(s)]

\* The Redis writes come first; session.update rejects when no record exists.
JoinQueue(s) ==
  /\ s \in Ids
  /\ queue' = JoinedQueue(s)
  /\ positions' = [positions EXCEPT ![s] = now]
  /\ status' = [status EXCEPT ![s] = IF HasRecord(s) THEN "IN_QUEUE" ELSE @]
  /\ last' = IF HasRecord(s) THEN JoinResult(s)
             ELSE [NoEvent EXCEPT !.op = "joinQueue throws", !.id = s,
                                  !.queued = s \in ZMembers(queue)]
  /\ UNCHANGED <<now, isBanned, accessToken, accessTokenExpiresAt, lastSeenAt,
                 riskScore, passedCaptcha, failedCount, admitted, issued,
                 admissions, pq>>

\* SessionManager.banSession(s) alone (the callers differ in what follows it).
BanSession(s) ==
  /\ HasRecord(s)
  /\ isBanned' = [isBanned EXCEPT ![s] = TRUE]
  /\ status' = [status EXCEPT ![s] = "BANNED"]
  /\ banList' = [banList EXCEPT ![IpOf(s)] = now + BanTtl]

\* The rest of the join request: ban on a critical score, else joinQueue.
JoinDecision(s) ==
  /\ s \in joinPending
  /\ joinPending' = joinPending \ {s}
  /\ IF RatGeq(riskScore[s], JoinBanScore)
       THEN /\ BanSession(s)
            /\ last' = NoEvent
            /\ UNCHANGED <<now, accessToken, accessTokenExpiresAt, lastSeenAt,
                           riskScore, passedCaptcha, failedCount, redisVars,
                           issued, admissions, pq>>
       ELSE JoinQueue(s) /\ UNCHANGED banList
  /\ UNCHANGED <<rm, powVars, powGate, rlVars, riskVars, opsVars>>

\* ------------------------------------------- QueueManager.processQueue
\* One whole call: the batch is read once, then each candidate is handled.
\* Admissible without the ban check.
AdmissibleIgnoringBan(m) == HasRecord(m)
Admissible(m) == HasRecord(m) /\ ~isBanned[m]

\* A batch of the head of the queue alone.
ProcessBatchHeadOnly == ZRange(queue, 0, 0)

\* The batch read one entry too far.
ProcessBatchOffByOne == ZRange(queue, 0, BatchSize)
ProcessBatch == ZRange(queue, 0, BatchSize - 1)

ProcessQueue ==
  LET batch == ProcessBatch
      ids == Range(batch)
      admittedIds == SelectSeq(batch, Admissible)
      adm == Range(admittedIds)
  IN /\ \A p \in DOMAIN pq : pq[p].pc = "idle"
     /\ queue' = RemovedQueue(queue, ids)
     /\ positions' = RemovedPositions(positions, ids)
     /\ issued' = [s \in Ids |-> IF s \in adm THEN issued[s] + 1 ELSE issued[s]]
     /\ admissions' = [s \in Ids |->
                         IF s \in adm /\ status[s] = "IN_QUEUE"
                           THEN admissions[s] + 1 ELSE admissions[s]]
     /\ admitted' = [s \in Ids |-> IF s \in adm THEN issued[s] + 1 ELSE admitted[s]]
     /\ status' = [s \in Ids |-> IF s \in adm THEN "ADMITTED" ELSE status[s]]
     /\ accessToken' =
          [s \in Ids |-> IF s \in adm THEN issued[s] + 1 ELSE accessToken[s]]
     /\ accessTokenExpiresAt' =
          [s \in Ids |-> IF s \in adm THEN now + AccessTokenTtl
                         ELSE accessTokenExpiresAt[s]]
     /\ last' = [NoEvent EXCEPT !.op = "processQueue", !.batch = batch,
                                !.ids = admittedIds]
     /\ UNCHANGED <<now, isBanned, lastSeenAt, riskScore, passedCaptcha,
                    failedCount, joinPending, pq>>
     /\ UNCHANGED extVars

\* ------------------------------------------- QueueProcessor periodic tasks
Suspects ==
  {s \in Ids : /\ status[s] = "IN_QUEUE"
               /\ RatGeq(riskScore[s], ThresholdMedium)
               /\ RatLt(riskScore[s], ThresholdHigh)
               /\ ~isBanned[s]}

\* Suspects are challenged whether or not they passed a captcha.
ChallengedDespitePass == Suspects

Challenged == {s \in Suspects : ~passedCaptcha[s]}

\* A high-risk query that leaves out the sessions in the queue.
HighRiskNotQueued ==
  {s \in Ids : /\ status[s] \in {"CHALLENGED", "ACTIVE"}
               /\ RatGeq(riskScore[s], ThresholdHigh)
               /\ ~isBanned[s]}

\* The second query runs after the first loop has written CHALLENGED.
HighRisk ==
  {s \in Ids : /\ \/ status[s] \in {"IN_QUEUE", "CHALLENGED", "ACTIVE"}
                  \/ s \in Challenged
               /\ RatGeq(riskScore[s], ThresholdHigh)
               /\ ~isBanned[s]}

\* findMany({ where, take: n }) with no orderBy: any n of the matching rows,
\* all of them when there are no more than n.
Taken(rows, n) ==
  {T \in SUBSET rows : Cardinality(T) = Min(Cardinality(rows), n)}

\* One tick, for the suspects and the high-risk sessions its queries returned.
EnforceChallengesOn(suspects, highRisk) ==
  LET challenged == suspects \cap Challenged
  IN /\ challenged \cup highRisk # {}
     /\ status' = [s \in Ids |-> IF s \in highRisk THEN "BANNED"
                                 ELSE IF s \in challenged THEN "CHALLENGED"
                                 ELSE status[s]]
     /\ isBanned' = [s \in Ids |-> IF s \in highRisk THEN TRUE ELSE isBanned[s]]
     /\ banList' = [ip \in Ips |->
                      IF \E s \in highRisk : IpOf(s) = ip THEN now + BanTtl
                      ELSE banList[ip]]
     /\ queue' = RemovedQueue(queue, challenged \cup highRisk)
     /\ positions' = RemovedPositions(positions, challenged \cup highRisk)
     /\ admitted' = RemovedAdmitted(admitted, challenged \cup highRisk)
     /\ last' = NoEvent
     /\ UNCHANGED <<now, accessToken, accessTokenExpiresAt, lastSeenAt,
                    riskScore, passedCaptcha, failedCount, issued, admissions,
                    joinPending, pq>>
     /\ UNCHANGED <<rm, powVars, powGate, rlVars, riskVars, opsVars>>

EnforceChallenges ==
  \E suspects \in Taken(Suspects, SuspectTake),
     highRisk \in Taken(HighRisk, HighRiskTake) :
    EnforceChallengesOn(suspects, highRisk)

\* Only ADMITTED sessions are looked at.
ExpiredAdmittedTokens ==
  {s \in Ids : /\ status[s] = "ADMITTED"
               /\ accessTokenExpiresAt[s] # Null
               /\ accessTokenExpiresAt[s] < now}

ExpiredTokens ==
  {s \in Ids : /\ status[s] \in {"ADMITTED", "PURCHASING"}
               /\ accessTokenExpiresAt[s] # Null
               /\ accessTokenExpiresAt[s] < now}

CleanupExpiredTokens ==
  /\ ExpiredTokens # {}
  /\ status' = [s \in Ids |-> IF s \in ExpiredTokens THEN "EXPIRED" ELSE status[s]]
  /\ accessToken' =
       [s \in Ids |-> IF s \in ExpiredTokens THEN NoToken ELSE accessToken[s]]
  /\ admitted' =
       RemovedAdmitted(admitted,
         {s \in Ids : status'[s] = "EXPIRED" /\ accessToken'[s] = NoToken})
  /\ last' = NoEvent
  /\ UNCHANGED <<now, isBanned, accessTokenExpiresAt, lastSeenAt, riskScore,
                 passedCaptcha, failedCount, queue, positions, issued,
                 admissions, joinPending, pq>>
  /\ UNCHANGED extVars

StaleSessions ==
  {s \in Ids : /\ status[s] \in {"IN_QUEUE", "CHALLENGED"}
               /\ lastSeenAt[s] < now - StaleQueued}

\* ACTIVE sessions held stale as early as the queued ones.
StaleActiveAsQueued ==
  {s \in Ids : status[s] = "ACTIVE" /\ lastSeenAt[s] < now - StaleQueued}

StaleActiveSessions ==
  {s \in Ids : status[s] = "ACTIVE" /\ lastSeenAt[s] < now - StaleActive}

\* One tick, for the stale queued sessions its query returned.
GarbageCollectOn(staleSessions) ==
  /\ staleSessions \cup StaleActiveSessions # {}
  /\ queue' = RemovedQueue(queue, staleSessions)
  /\ positions' = RemovedPositions(positions, staleSessions)
  /\ status' = [s \in Ids |->
                  IF s \in staleSessions \cup StaleActiveSessions THEN "EXPIRED"
                  ELSE status[s]]
  /\ last' = NoEvent
  /\ UNCHANGED <<now, isBanned, accessToken, accessTokenExpiresAt, lastSeenAt,
                 riskScore, passedCaptcha, failedCount, admitted, issued,
                 admissions, joinPending, pq>>
  /\ UNCHANGED extVars

GarbageCollectSessions ==
  \E staleSessions \in Taken(StaleSessions, StaleTake) :
    GarbageCollectOn(staleSessions)

\* ------------------- the select-then-update tasks, await by await
\* garbageCollectSessions: the findMany of the stale queued sessions.
GcFindMany ==
  /\ gcCall.pc = "idle"
  /\ StaleSessions # {}
  /\ \E staleSessions \in Taken(StaleSessions, StaleTake) :
       gcCall' = [pc |-> "selected", ids |-> staleSessions]
  /\ last' = NoEvent
  /\ UNCHANGED <<now, dbVars, redisVars, issued, admissions, joinPending, pq,
                 rm, powVars, powGate, rlVars, riskVars, bsCalls, schedVars,
                 buyVars, ecCall, banList>>

\* garbageCollectSessions from the Redis pipeline on: zrem and hdel for the
\* selected ids, updateMany by id, then the ACTIVE sessions.
GcUpdateMany ==
  /\ gcCall.pc = "selected"
  /\ queue' = RemovedQueue(queue, gcCall.ids)
  /\ positions' = RemovedPositions(positions, gcCall.ids)
  /\ status' = [s \in Ids |->
                  IF s \in gcCall.ids \cup StaleActiveSessions
                    THEN "EXPIRED" ELSE status[s]]
  /\ gcCall' = IdleTask
  /\ last' = [NoEvent EXCEPT !.op = "garbageCollectSessions"]
  /\ UNCHANGED <<now, isBanned, accessToken, accessTokenExpiresAt, lastSeenAt,
                 riskScore, passedCaptcha, failedCount, admitted, issued,
                 admissions, joinPending, pq, rm, powVars, powGate, rlVars,
                 riskVars, bsCalls, schedVars, buyVars, ecCall, banList>>

\* enforceChallenges: the findMany of the suspects.
EcFindMany ==
  /\ ecCall.pc = "idle"
  /\ Suspects # {}
  /\ \E suspects \in Taken(Suspects, SuspectTake) :
       ecCall' = [pc |-> "selected", ids |-> suspects]
  /\ last' = NoEvent
  /\ UNCHANGED <<now, dbVars, redisVars, issued, admissions, joinPending, pq,
                 rm, powVars, powGate, rlVars, riskVars, bsCalls, schedVars,
                 buyVars, gcCall, banList>>

\* enforceChallenges from its loop on: removeFromQueue and the CHALLENGED
\* update for every selected suspect without a passed captcha, then the
\* high-risk query and its bans.
EcLoop ==
  LET challenged == {s \in ecCall.ids : ~passedCaptcha[s]}
      matching == {s \in Ids :
                     /\ \/ s \in challenged
                        \/ status[s] \in {"IN_QUEUE", "CHALLENGED", "ACTIVE"}
                     /\ RatGeq(riskScore[s], ThresholdHigh)
                     /\ ~isBanned[s]}
  IN /\ ecCall.pc = "selected"
     /\ \E highRisk \in Taken(matching, HighRiskTake) :
          /\ status' = [s \in Ids |-> IF s \in highRisk THEN "BANNED"
                                      ELSE IF s \in challenged THEN "CHALLENGED"
                                      ELSE status[s]]
          /\ isBanned' = [s \in Ids |->
                            IF s \in highRisk THEN TRUE ELSE isBanned[s]]
          /\ banList' = [ip \in Ips |->
                           IF \E s \in highRisk : IpOf(s) = ip
                             THEN now + BanTtl ELSE banList[ip]]
          /\ queue' = RemovedQueue(queue, challenged \cup highRisk)
          /\ positions' = RemovedPositions(positions, challenged \cup highRisk)
          /\ admitted' = RemovedAdmitted(admitted, challenged \cup highRisk)
     /\ ecCall' = IdleTask
     /\ last' = [NoEvent EXCEPT !.op = "enforceChallenges"]
     /\ UNCHANGED <<now, accessToken, accessTokenExpiresAt, lastSeenAt,
                    riskScore, passedCaptcha, failedCount, issued, admissions,
                    joinPending, pq, rm, powVars, powGate, rlVars, riskVars,
                    bsCalls, schedVars, buyVars, gcCall>>

\* autoRefillQueue: phantoms are queue members without a session record.
AutoRefillQueue ==
  /\ ZCard(queue) = 0
  /\ queue' = {[id |-> m, score |-> now] : m \in PhantomIds}
  /\ last' = NoEvent
  /\ UNCHANGED <<now, dbVars, positions, admitted, issued, admissions,
                 joinPending, pq>>
  /\ UNCHANGED extVars

\* ------------------------------------------------------ request handlers
\* POST /api/captcha/verify; r is the aggregate addBotScore arrives at.
CaptchaVerify(s, passed, r) ==
  LET failed == IF passed THEN failedCount[s]
                ELSE Min(failedCount[s] + 1, CaptchaFailLimit)
      ban == failed >= CaptchaFailLimit
  IN /\ Known(s)
     /\ passedCaptcha' = [passedCaptcha EXCEPT ![s] = @ \/ passed]
     /\ failedCount' = [failedCount EXCEPT ![s] = failed]
     /\ riskScore' = [riskScore EXCEPT ![s] = Rat(r)]
     /\ riskLevel' = [riskLevel EXCEPT ![s] = RiskLevelOf(Rat(r))]
     /\ lastSeenAt' = [lastSeenAt EXCEPT ![s] = now]
     /\ status' = [status EXCEPT ![s] =
                     IF ban THEN "BANNED" ELSE IF passed THEN "IN_QUEUE" ELSE @]
     /\ isBanned' = [isBanned EXCEPT ![s] = @ \/ ban]
     /\ banList' = IF ban THEN [banList EXCEPT ![IpOf(s)] = now + BanTtl]
                    ELSE banList
     /\ last' = NoEvent
     /\ UNCHANGED <<now, accessToken, accessTokenExpiresAt, redisVars, issued,
                    admissions, joinPending, pq>>
     /\ UNCHANGED <<rm, powVars, powGate, rlVars, botScores, opsVars>>

\* GET /challenge/[sessionId]
ChallengePage(s) ==
  /\ Known(s)
  /\ ~isBanned[s]
  /\ ~(status[s] = "IN_QUEUE" /\ passedCaptcha[s])
  /\ status[s] # "CHALLENGED"
  /\ status' = [status EXCEPT ![s] = "CHALLENGED"]
  /\ last' = NoEvent
  /\ UNCHANGED <<now, isBanned, accessToken, accessTokenExpiresAt, lastSeenAt,
                 riskScore, passedCaptcha, failedCount, redisVars, issued,
                 admissions, joinPending, pq>>
  /\ UNCHANGED extVars

\* An expiry check that never finds a token expired.
TokenNeverExpired(s) == FALSE

TokenExpired(s) ==
  accessTokenExpiresAt[s] # Null /\ accessTokenExpiresAt[s] < now

\* GET /purchase/[token], with the token the session holds.
PurchasePage(s) ==
  /\ s \in Ids
  /\ accessToken[s] # NoToken
  /\ ~isBanned[s]
  /\ ~TokenExpired(s)
  /\ status[s] # "COMPLETED"
  /\ status' = [status EXCEPT ![s] = "PURCHASING"]
  /\ last' = NoEvent
  /\ UNCHANGED <<now, isBanned, accessToken, accessTokenExpiresAt, lastSeenAt,
                 riskScore, passedCaptcha, failedCount, redisVars, issued,
                 admissions, joinPending, pq>>
  /\ UNCHANGED extVars

\* QueueManager.validateAccessToken, for the token session s holds.
ValidAccessToken(s) ==
  /\ accessToken[s] # NoToken
  /\ ~isBanned[s]
  /\ status[s] \in {"ADMITTED", "PURCHASING"}
  /\ ~TokenExpired(s)

\* QueueManager.validateAccessToken called with the token session s holds.
ValidateAccessToken(s) ==
  /\ s \in Ids
  /\ accessToken[s] # NoToken
  /\ last' = [NoEvent EXCEPT !.op = "validateAccessToken", !.id = s,
                             !.valid = ValidAccessToken(s)]
  /\ UNCHANGED <<now, dbVars, redisVars, issued, admissions, joinPending, pq>>
  /\ UNCHANGED extVars

\* QueueManager.completePurchase(s)
CompletePurchase(s) ==
  /\ HasRecord(s)
  /\ soldTickets < MaxSold
  /\ status' = [status EXCEPT ![s] = "COMPLETED"]
  /\ admitted' = [admitted EXCEPT ![s] = NoToken]
  /\ soldTickets' = soldTickets + 1
  /\ last' = NoEvent
  /\ UNCHANGED <<now, isBanned, accessToken, accessTokenExpiresAt, lastSeenAt,
                 riskScore, passedCaptcha, failedCount, queue, positions,
                 issued, admissions, joinPending, pq>>

\* POST /api/purchase, handled with no other request in between.
Purchase(s) ==
  /\ s \in Ids
  /\ ValidAccessToken(s)
  /\ CompletePurchase(s)
  /\ UNCHANGED <<rm, powVars, powGate, rlVars, riskVars, bsCalls, schedVars,
                 buyCalls, banList, taskVars>>

\* POST /api/purchase up to its second await: validateAccessToken with the
\* token and id of session s; 403 when the token is not valid.
PurchaseValidate(c, s) ==
  /\ buyCalls[c].pc = "idle"
  /\ s \in Ids
  /\ accessToken[s] # NoToken
  /\ buyCalls' = [buyCalls EXCEPT ![c] =
                    [pc |-> IF ValidAccessToken(s) THEN "validated" ELSE "403",
                     id |-> s]]
  /\ last' = [NoEvent EXCEPT !.op = "validateAccessToken", !.id = s,
                             !.valid = ValidAccessToken(s)]
  /\ UNCHANGED <<now, dbVars, redisVars, issued, admissions, joinPending, pq,
                 rm, powVars, powGate, rlVars, riskVars, bsCalls, schedVars,
                 soldTickets, banList, taskVars>>

\* POST /api/purchase from completePurchase to its 200 response.
PurchaseComplete(c) ==
  /\ buyCalls[c].pc = "validated"
  /\ CompletePurchase(buyCalls[c].id)
  /\ buyCalls' = [buyCalls EXCEPT ![c].pc = "200"]
  /\ UNCHANGED <<rm, powVars, powGate, rlVars, riskVars, bsCalls, schedVars,
                 banList, taskVars>>

\* POST /api/admin/sessions
AdminBan(s) ==
  /\ BanSession(s)
  /\ queue' = RemovedQueue(queue, {s})
  /\ positions' = RemovedPositions(positions, {s})
  /\ admitted' = RemovedAdmitted(admitted, {s})
  /\ last' = NoEvent
  /\ UNCHANGED <<now, accessToken, accessTokenExpiresAt, lastSeenAt, riskScore,
                 passedCaptcha, failedCount, issued, admissions, joinPending, pq>>
  /\ UNCHANGED <<rm, powVars, powGate, rlVars, riskVars, opsVars>>

AdminUnban(s) ==
  /\ HasRecord(s)
  /\ isBanned' = [isBanned EXCEPT ![s] = FALSE]
  /\ status' = [status EXCEPT ![s] = "EXPIRED"]
  /\ last' = NoEvent
  /\ UNCHANGED <<now, accessToken, accessTokenExpiresAt, lastSeenAt, riskScore,
                 passedCaptcha, failedCount, redisVars, issued, admissions,
                 joinPending, pq>>
  /\ UNCHANGED extVars

AdminRemove(s) ==
  /\ HasRecord(s)
  /\ queue' = RemovedQueue(queue, {s})
  /\ positions' = RemovedPositions(positions, {s})
  /\ admitted' = RemovedAdmitted(admitted, {s})
  /\ status' = [status EXCEPT ![s] = "EXPIRED"]
  /\ last' = NoEvent
  /\ UNCHANGED <<now, isBanned, accessToken, accessTokenExpiresAt, lastSeenAt,
                 riskScore, passedCaptcha, failedCount, issued, admissions,
                 joinPending, pq>>
  /\ UNCHANGED extVars

\* PATCH /api/queue/position, with the queueToken of the page source.
PatchPosition(s, position) ==
  /\ HasRecord(s)
  /\ positions[s] # NoEntry
  /\ queue' = ZAdd(queue, Max(1, position) - 1, s)
  /\ last' = NoEvent
  /\ UNCHANGED <<now, dbVars, positions, admitted, issued, admissions,
                 joinPending, pq>>
  /\ UNCHANGED extVars

\* GET /api/queue/sse, one poll: touchSession after getQueueStatus.
TouchSession(s) ==
  /\ Known(s)
  /\ ~isBanned[s]
  /\ status[s] # "CHALLENGED"
  /\ lastSeenAt[s] # now
  /\ lastSeenAt' = [lastSeenAt EXCEPT ![s] = now]
  /\ last' = NoEvent
  /\ UNCHANGED <<now, status, isBanned, accessToken, accessTokenExpiresAt,
                 riskScore, passedCaptcha, failedCount, redisVars, issued,
                 admissions, joinPending, pq>>
  /\ UNCHANGED extVars

\* QueueManager.getQueueStatus(s): the position and status it reports.
GetQueueStatus(s) ==
  IF admitted[s] # NoToken
    THEN [position |-> 0, status |-> "admitted", accessToken |-> admitted[s]]
  ELSE IF ZRank(queue, s) = Null
    THEN [position |-> -1, status |-> "removed", accessToken |-> NoToken]
  ELSE [position |-> ZRank(queue, s) + 1, status |-> "waiting",
        accessToken |-> NoToken]

\* ------------------------- QueueManager.processQueue, await by await
\* A call in flight is at the await named by pc; each step below is the
\* effect of that awaited request together with the synchronous code that
\* follows it up to the next await.  redis.expire is sent for a key that
\* does not exist and changes nothing, so it has no step of its own.
Candidate(p) == pq[p].batch[pq[p].i]

\* After the last await of one candidate: the next one, or return.
PqAdvance(p, out) ==
  IF pq[p].i < Len(pq[p].batch)
    THEN /\ pq' = [pq EXCEPT ![p] = [@ EXCEPT !.pc = "findUnique", !.i = @ + 1,
                                              !.token = NoToken, !.out = out]]
         /\ last' = NoEvent
    ELSE /\ pq' = [pq EXCEPT ![p] = IdlePq]
         /\ last' = [NoEvent EXCEPT !.op = "processQueue",
                                    !.batch = pq[p].batch, !.ids = out]

\* redis.zrange(QUEUE_KEY, 0, batchSize - 1)
PqZrange(p) ==
  /\ pq[p].pc = "idle"
  /\ ProcessBatch # <<>>
  /\ pq' = [pq EXCEPT ![p] = [IdlePq EXCEPT !.pc = "findUnique",
                                            !.batch = ProcessBatch, !.i = 1]]
  /\ last' = NoEvent
  /\ UNCHANGED <<now, dbVars, redisVars, issued, admissions, joinPending>>
  /\ UNCHANGED extVars

\* prisma.session.findUnique, and the branch taken on its result.
PqFindUnique(p) ==
  /\ pq[p].pc = "findUnique"
  /\ pq' = [pq EXCEPT ![p].pc =
              IF Admissible(Candidate(p)) THEN "hset" ELSE "skipZrem"]
  /\ last' = NoEvent
  /\ UNCHANGED <<now, dbVars, redisVars, issued, admissions, joinPending>>
  /\ UNCHANGED extVars

\* Not admissible: redis.zrem, then redis.hdel of the positions entry.
PqSkipZrem(p) ==
  /\ pq[p].pc = "skipZrem"
  /\ queue' = ZRem(queue, Candidate(p))
  /\ pq' = [pq EXCEPT ![p].pc = "skipHdel"]
  /\ last' = NoEvent
  /\ UNCHANGED <<now, dbVars, positions, admitted, issued, admissions,
                 joinPending>>
  /\ UNCHANGED extVars

PqSkipHdel(p) ==
  /\ pq[p].pc = "skipHdel"
  /\ positions' = RemovedPositions(positions, {Candidate(p)})
  /\ PqAdvance(p, pq[p].out)
  /\ UNCHANGED <<now, dbVars, queue, admitted, issued, admissions, joinPending>>
  /\ UNCHANGED extVars

\* uuidv4() and redis.hset(QUEUE_ADMITTED_KEY, sessionId, accessToken)
PqHset(p) ==
  LET s == Candidate(p)
      token == issued[s] + 1
  IN /\ pq[p].pc = "hset"
     /\ issued' = [issued EXCEPT ![s] = token]
     /\ admitted' = [admitted EXCEPT ![s] = token]
     /\ pq' = [pq EXCEPT ![p] = [@ EXCEPT !.pc = "zrem", !.token = token]]
     /\ last' = NoEvent
     /\ UNCHANGED <<now, dbVars, queue, positions, admissions, joinPending>>
     /\ UNCHANGED extVars

PqZrem(p) ==
  /\ pq[p].pc = "zrem"
  /\ queue' = ZRem(queue, Candidate(p))
  /\ pq' = [pq EXCEPT ![p].pc = "hdel"]
  /\ last' = NoEvent
  /\ UNCHANGED <<now, dbVars, positions, admitted, issued, admissions,
                 joinPending>>
  /\ UNCHANGED extVars

PqHdel(p) ==
  /\ pq[p].pc = "hdel"
  /\ positions' = RemovedPositions(positions, {Candidate(p)})
  /\ pq' = [pq EXCEPT ![p].pc = "update"]
  /\ last' = NoEvent
  /\ UNCHANGED <<now, dbVars, queue, admitted, issued, admissions, joinPending>>
  /\ UNCHANGED extVars

\* prisma.session.update({ status: 'ADMITTED', accessToken, ... })
PqUpdate(p) ==
  LET s == Candidate(p)
  IN /\ pq[p].pc = "update"
     /\ status' = [status EXCEPT ![s] = "ADMITTED"]
     /\ accessToken' = [accessToken EXCEPT ![s] = pq[p].token]
     /\ accessTokenExpiresAt' =
          [accessTokenExpiresAt EXCEPT ![s] = now + AccessTokenTtl]
     /\ admissions' = [admissions EXCEPT ![s] =
                         IF status[s] = "IN_QUEUE" THEN @ + 1 ELSE @]
     /\ PqAdvance(p, Append(pq[p].out, s))
     /\ UNCHANGED <<now, isBanned, lastSeenAt, riskScore, passedCaptcha,
                    failedCount, redisVars, issued, joinPending>>
     /\ UNCHANGED extVars

\* ------------------------------------------------ QueueManager, called directly
ApiCreateSession(s) ==
  /\ s = FreshId
  /\ s \in Ids
  /\ status' = [status EXCEPT ![s] = "ACTIVE"]
  /\ lastSeenAt' = [lastSeenAt EXCEPT ![s] = now]
  /\ last' = NoEvent
  /\ UNCHANGED <<now, isBanned, accessToken, accessTokenExpiresAt, riskScore,
                 passedCaptcha, failedCount, redisVars, issued, admissions,
                 joinPending, pq>>
  /\ UNCHANGED extVars

ApiJoinQueue(s) ==
  /\ issued[s] < MaxAdmissions
  /\ JoinQueue(s)
  /\ UNCHANGED joinPending
  /\ UNCHANGED extVars

ApiRemoveFromQueue(s) ==
  /\ s \in Ids
  /\ queue' = RemovedQueue(queue, {s})
  /\ positions' = RemovedPositions(positions, {s})
  /\ admitted' = RemovedAdmitted(admitted, {s})
  /\ last' = [NoEvent EXCEPT !.op = "removeFromQueue", !.id = s,
                             !.queued = s \in ZMembers(queue)]
  /\ UNCHANGED <<now, dbVars, issued, admissions, joinPending, pq>>
  /\ UNCHANGED extVars

\* ------------------------- QueueManager.removeFromQueue, await by await
\* The three keys as one whole call on id s leaves them.
AfterRemove(s) ==
  <<RemovedQueue(queue, {s}), RemovedPositions(positions, {s}),
    RemovedAdmitted(admitted, {s})>>

NoRemoval == \A c \in DOMAIN rm.pc : rm.pc[c] = "idle"

\* A call is made: the first one fixes the id, the others are given the same.
RmCall(c, s) ==
  /\ rm.pc[c] = "idle"
  /\ IF NoRemoval
       THEN rm' = [id |-> s,
                   found |-> AfterRemove(s) # <<queue, positions, admitted>>,
                   one |-> AfterRemove(s),
                   pc |-> [rm.pc EXCEPT ![c] = "zrem"]]
       ELSE /\ s = rm.id
            /\ rm' = [rm EXCEPT !.pc[c] = "zrem"]
  /\ last' = NoEvent
  /\ UNCHANGED <<now, dbVars, redisVars, issued, admissions, joinPending, pq>>
  /\ UNCHANGED <<powVars, powGate, rlVars, riskVars, opsVars, banList>>

\* redis.zrem(QUEUE_KEY, sessionId)
RmZrem(c) ==
  /\ rm.pc[c] = "zrem"
  /\ queue' = ZRem(queue, rm.id)
  /\ rm' = [rm EXCEPT !.pc[c] = "hdelPositions"]
  /\ last' = NoEvent
  /\ UNCHANGED <<now, dbVars, positions, admitted, issued, admissions,
                 joinPending, pq>>
  /\ UNCHANGED <<powVars, powGate, rlVars, riskVars, opsVars, banList>>

\* redis.hdel(QUEUE_POSITIONS_KEY, sessionId)
RmHdelPositions(c) ==
  /\ rm.pc[c] = "hdelPositions"
  /\ positions' = RemovedPositions(positions, {rm.id})
  /\ rm' = [rm EXCEPT !.pc[c] = "hdelAdmitted"]
  /\ last' = NoEvent
  /\ UNCHANGED <<now, dbVars, queue, admitted, issued, admissions,
                 joinPending, pq>>
  /\ UNCHANGED <<powVars, powGate, rlVars, riskVars, opsVars, banList>>

\* redis.hdel(QUEUE_ADMITTED_KEY, sessionId), and the call returns.
RmHdelAdmitted(c) ==
  /\ rm.pc[c] = "hdelAdmitted"
  /\ admitted' = RemovedAdmitted(admitted, {rm.id})
  /\ rm' = [rm EXCEPT !.pc[c] = "returned"]
  /\ last' = [NoEvent EXCEPT !.op = "removeFromQueue", !.id = rm.id]
  /\ UNCHANGED <<now, dbVars, queue, positions, issued, admissions,
                 joinPending, pq>>
  /\ UNCHANGED <<powVars, powGate, rlVars, riskVars, opsVars, banList>>

\* ------------------------------------------------------- proof of work
\* HMAC-SHA256 of the payload nonce:timestamp under POW_SECRET: a value only
\* the server computes, different for different payloads.
Sign(nonce, timestamp) == <<nonce, timestamp>>

\* generateChallenge(): a random nonce, Date.now() and the signature.
GenerateChallenge ==
  /\ Cardinality(challenges) < MaxChallenges
  /\ challenges' = challenges \cup
       {[parts |-> 3, nonce |-> Cardinality(challenges) + 1, timestamp |-> now,
         signature |-> Sign(Cardinality(challenges) + 1, now)]}
  /\ last' = NoEvent
  /\ UNCHANGED <<now, dbVars, redisVars, issued, admissions, joinPending, pq,
                 rm, replay, solved, spent, pv, powGate, rlVars, riskVars, opsVars, banList>>

\* The strings a client may present: the challenges it was given, those with
\* the timestamp replaced by the current time, and one that is not three
\* parts.
Presented ==
  challenges \cup {[c EXCEPT !.timestamp = now] : c \in challenges}
             \cup {[NoChallenge EXCEPT !.parts = 2]}

ChallengeExpired(ch) == now - ch.timestamp > PowTtl

\* verifySolution before its first await: format, signature, expiry.
SyncCheck(ch) ==
  IF ch.parts # 3 THEN "invalid_challenge_format"
  ELSE IF ch.signature # Sign(ch.nonce, ch.timestamp) THEN "invalid_signature"
  ELSE IF ChallengeExpired(ch) THEN "challenge_expired"
  ELSE "ok"

\* The keys Redis still holds: a key set with EX is gone once the time is
\* past its expiry time.
LiveKeys(keys) == {k \in keys : k.expires >= now}

\* SET key 1 EX ttl without NX: the key is written whether or not it exists.
SetAlways(keys, ch) ==
  [ok |-> TRUE,
   keys |-> {k \in LiveKeys(keys) : k.challenge # ch}
              \cup {[challenge |-> ch, expires |-> now + PowTtl]}]

\* The marker is given a lifetime shorter than the challenge's.
SetNxShortLived(keys, ch) ==
  IF \E k \in LiveKeys(keys) : k.challenge = ch
    THEN [ok |-> FALSE, keys |-> LiveKeys(keys)]
    ELSE [ok |-> TRUE,
          keys |-> LiveKeys(keys)
                     \cup {[challenge |-> ch, expires |-> now + PowTtl - 1]}]

\* redis.set(replayKey, '1', 'EX', POW_TTL_SECONDS, 'NX'): one Redis command.
SetNx(keys, ch) ==
  IF \E k \in LiveKeys(keys) : k.challenge = ch
    THEN [ok |-> FALSE, keys |-> LiveKeys(keys)]
    ELSE [ok |-> TRUE,
          keys |-> LiveKeys(keys) \cup {[challenge |-> ch, expires |-> now + PowTtl]}]

\* leadingZeroBits < difficulty
HashCheck(zeroBits, difficulty) ==
  IF zeroBits < difficulty THEN "insufficient_difficulty" ELSE "valid"

\* What one whole verifySolution call returns.
VerifyReason(ch, zeroBits, difficulty) ==
  IF SyncCheck(ch) # "ok" THEN SyncCheck(ch)
  ELSE IF ~SetNx(replay, ch).ok THEN "challenge_already_used"
  ELSE HashCheck(zeroBits, difficulty)

VerifyResult(ch, zeroBits, difficulty) ==
  [NoEvent EXCEPT !.op = "verifySolution", !.challenge = ch,
                  !.valid = VerifyReason(ch, zeroBits, difficulty) = "valid",
                  !.reason = VerifyReason(ch, zeroBits, difficulty)]

\* The replay key is written before the format, signature and expiry checks.
VerifySolutionMarksFirst(ch, zeroBits, difficulty) ==
  /\ replay' = SetNx(replay, ch).keys
  /\ last' = VerifyResult(ch, zeroBits, difficulty)
  /\ solved' = IF last'.valid THEN solved \cup {ch} ELSE solved
  /\ spent' = IF last'.reason = "insufficient_difficulty"
               THEN spent \cup {ch} ELSE spent
  /\ UNCHANGED <<now, dbVars, redisVars, issued, admissions, joinPending, pq,
                 rm, challenges, pv, powGate, rlVars, riskVars, opsVars, banList>>

\* The difficulty is checked before the replay key is written, and the key
\* is written only for a nonce that meets it.
VerifyReasonHashFirst(ch, zeroBits, difficulty) ==
  IF SyncCheck(ch) # "ok" THEN SyncCheck(ch)
  ELSE IF HashCheck(zeroBits, difficulty) # "valid"
    THEN HashCheck(zeroBits, difficulty)
  ELSE IF ~SetNx(replay, ch).ok THEN "challenge_already_used"
  ELSE "valid"

VerifySolutionHashFirst(ch, zeroBits, difficulty) ==
  /\ replay' = IF /\ SyncCheck(ch) = "ok"
                  /\ HashCheck(zeroBits, difficulty) = "valid"
                 THEN SetNx(replay, ch).keys ELSE replay
  /\ last' = [NoEvent EXCEPT
                !.op = "verifySolution", !.challenge = ch,
                !.valid = VerifyReasonHashFirst(ch, zeroBits, difficulty) = "valid",
                !.reason = VerifyReasonHashFirst(ch, zeroBits, difficulty)]
  /\ solved' = IF last'.valid THEN solved \cup {ch} ELSE solved
  /\ spent' = IF last'.reason = "insufficient_difficulty"
               THEN spent \cup {ch} ELSE spent
  /\ UNCHANGED <<now, dbVars, redisVars, issued, admissions, joinPending, pq,
                 rm, challenges, pv, powGate, rlVars, riskVars, opsVars, banList>>

\* verifySolution(challenge, nonce, difficulty), one whole call.
VerifySolution(ch, zeroBits, difficulty) ==
  /\ replay' = IF SyncCheck(ch) = "ok" THEN SetNx(replay, ch).keys ELSE replay
  /\ last' = VerifyResult(ch, zeroBits, difficulty)
  /\ solved' = IF last'.valid THEN solved \cup {ch} ELSE solved
  /\ spent' = IF last'.reason = "insufficient_difficulty"
               THEN spent \cup {ch} ELSE spent
  /\ UNCHANGED <<now, dbVars, redisVars, issued, admissions, joinPending, pq,
                 rm, challenges, pv, powGate, rlVars, riskVars, opsVars, banList>>

\* ------------------------------- POST /api/queue/join, the whole request
\* The pow field of the request body: absent, or a challenge, a nonce and
\* the difficulty the client names.
NoPow == [challenge |-> NoChallenge, zeroBits |-> 0, difficulty |-> 0]
PowInputs ==
  {NoPow} \cup [challenge : Presented, zeroBits : LeadingZeroBits,
                difficulty : RequestDifficulties]

\* pow?.challenge && pow?.nonce
PowSupplied(pw) == pw.challenge # NoChallenge

\* pow.difficulty || 18
RequestedDifficulty(pw) ==
  IF pw.difficulty = 0 THEN JoinDifficulty ELSE pw.difficulty

\* The rate limit and the IP ban let the request through; r is the aggregate
\* the risk layers arrive at.
JoinRequest(s, r, pw) ==
  LET reason == IF PowSupplied(pw)
                  THEN VerifyReason(pw.challenge, pw.zeroBits,
                                    RequestedDifficulty(pw))
                  ELSE "not verified"
  IN /\ s = FreshId
     /\ s \in Ids
     /\ replay' = IF PowSupplied(pw) /\ SyncCheck(pw.challenge) = "ok"
                    THEN SetNx(replay, pw.challenge).keys ELSE replay
     /\ solved' = IF reason = "valid" THEN solved \cup {pw.challenge} ELSE solved
     /\ spent' = IF reason = "insufficient_difficulty"
                  THEN spent \cup {pw.challenge} ELSE spent
     /\ IF PowSupplied(pw) /\ reason # "valid"
          THEN /\ last' = [NoEvent EXCEPT !.op = "join refused",
                                          !.challenge = pw.challenge,
                                          !.reason = reason]
               /\ UNCHANGED <<dbVars, redisVars, powGate, riskLevel, banList>>
          ELSE /\ powGate' = [powGate EXCEPT ![s] =
                                [verified |-> PowSupplied(pw),
                                 difficulty |-> IF PowSupplied(pw)
                                                  THEN RequestedDifficulty(pw)
                                                  ELSE 0]]
               /\ riskScore' = [riskScore EXCEPT ![s] = Rat(r)]
               /\ riskLevel' = [riskLevel EXCEPT ![s] = RiskLevelOf(Rat(r))]
               /\ lastSeenAt' = [lastSeenAt EXCEPT ![s] = now]
               /\ IF r >= JoinBanScore
                    THEN /\ isBanned' = [isBanned EXCEPT ![s] = TRUE]
                         /\ status' = [status EXCEPT ![s] = "BANNED"]
                         /\ banList' = [banList EXCEPT ![IpOf(s)] =
                                          now + BanTtl]
                         /\ last' = NoEvent
                         /\ UNCHANGED redisVars
                    ELSE /\ queue' = JoinedQueue(s)
                         /\ positions' = [positions EXCEPT ![s] = now]
                         /\ status' = [status EXCEPT ![s] = "IN_QUEUE"]
                         /\ last' = JoinResult(s)
                         /\ UNCHANGED <<isBanned, admitted, banList>>
               /\ UNCHANGED <<accessToken, accessTokenExpiresAt,
                              passedCaptcha, failedCount>>
     /\ UNCHANGED <<now, issued, admissions, joinPending, pq, rm, challenges,
                    pv, rlVars, botScores, opsVars>>

\* ------------------------------------------------------- RateLimiter
\* The clock read at a challenge's timestamp, at the end of its lifetime to
\* the minute, and around it.
MarkerTick ==
  /\ \E t \in MarkerReadings : t > now /\ now' = t
  /\ last' = NoEvent
  /\ UNCHANGED <<dbVars, redisVars, issued, admissions, joinPending, pq, rm,
                 powVars, powGate, rlVars, riskVars, opsVars, banList>>

\* In the rate limiter specifications the clock counts milliseconds.
RlTick ==
  /\ \E t \in RateReadings : t > now /\ now' = t
  /\ last' = NoEvent
  /\ UNCHANGED <<dbVars, redisVars, issued, admissions, joinPending, pq, rm,
                 powVars, powGate, rlVars, riskVars, opsVars, banList>>

\* Math.ceil(a / b) for positive b
CeilDiv(a, b) == (a + b - 1) \div b

\* The entries Redis holds under the key at time t: after EXPIRE the whole
\* key is gone at its expiry time; a key just created has none.
RlEntries(key, t) ==
  IF key.expires # Null /\ t >= key.expires THEN {} ELSE key.entries

\* zremrangebyscore(redisKey, 0, now - windowMs)
RlEvicted(entries, t, windowMs) == {e \in entries : e.score > t - windowMs}

\* zadd(redisKey, now, `${now}:${Math.random()}`): a member of its own
RlAdded(entries, t, member) == entries \cup {[score |-> t, member |-> member]}

\* The number of entries before the request is added.
RlCountBeforeAdd(entries) == Cardinality(entries) - 1

\* zcard(redisKey)
RlCount(entries) == Cardinality(entries)

\* zrange(redisKey, 0, 0, 'WITHSCORES'): the lowest score, now when empty
RlOldestTime(entries, t) ==
  IF entries = {} THEN t
  ELSE (CHOOSE e \in entries : \A d \in entries : e.score <= d.score).score

\* What check returns for the count and the oldest entry it has read.
RlResult(limit, windowSeconds, t, count, oldestTime) ==
  IF count > limit
    THEN [allowed |-> FALSE, remaining |-> 0,
          retryAfterSeconds |->
            CeilDiv(Max(oldestTime + windowSeconds * 1000 - t, 1000), 1000)]
    ELSE [allowed |-> TRUE, remaining |-> Max(0, limit - count),
          retryAfterSeconds |-> 0]

\* The limit and window of the calls on the key: the first call chooses them.
RlSameProfile(limit, windowSeconds) ==
  IF rlLog = <<>> THEN TRUE
  ELSE rlLog[1].limit = limit /\ rlLog[1].window = windowSeconds

\* RateLimiter.check(key, limit, windowSeconds), one whole call.
RlCheck(limit, windowSeconds) ==
  LET windowMs == windowSeconds * 1000
      entries == RlAdded(RlEvicted(RlEntries(rlKey, now), now, windowMs),
                         now, Len(rlLog) + 1)
      result == RlResult(limit, windowSeconds, now, RlCount(entries),
                         RlOldestTime(entries, now))
  IN /\ Len(rlLog) < MaxCalls
     /\ RlSameProfile(limit, windowSeconds)
     /\ rlKey' = [entries |-> entries, expires |-> now + windowMs]
     /\ rlLog' = Append(rlLog, [at |-> now, limit |-> limit,
                                window |-> windowSeconds,
                                allowed |-> result.allowed,
                                remaining |-> result.remaining,
                                retryAfterSeconds |-> result.retryAfterSeconds])
     /\ last' = NoEvent
     /\ UNCHANGED <<now, dbVars, redisVars, issued, admissions, joinPending,
                    pq, rm, powVars, powGate, rlCalls, riskVars, opsVars, banList>>

\* --------------------------------- RateLimiter.check, request by request
\* redis.pipeline() sends its commands in one batch without MULTI: Redis runs
\* them in order, and may run commands of other connections in between.
RlFrame ==
  /\ last' = NoEvent
  /\ UNCHANGED <<now, dbVars, redisVars, issued, admissions, joinPending, pq,
                 rm, powVars, powGate, rlLog, riskVars, opsVars, banList>>

RlProfileInUse(limit, windowSeconds) ==
  \A c \in DOMAIN rlCalls :
    rlCalls[c].pc # "idle"
      => rlCalls[c].limit = limit /\ rlCalls[c].window = windowSeconds

\* check is called: now and windowMs are computed, the pipeline is sent.
RlStart(c, limit, windowSeconds) ==
  /\ rlCalls[c].pc = "idle"
  /\ RlProfileInUse(limit, windowSeconds)
  /\ rlCalls' = [rlCalls EXCEPT ![c] = [IdleRl EXCEPT !.pc = "zremrangebyscore",
                    !.now = now, !.limit = limit, !.window = windowSeconds]]
  /\ UNCHANGED rlKey
  /\ RlFrame

RlZremrangebyscore(c) ==
  /\ rlCalls[c].pc = "zremrangebyscore"
  /\ rlKey' = [rlKey EXCEPT !.entries =
                 RlEvicted(RlEntries(rlKey, now), rlCalls[c].now,
                           rlCalls[c].window * 1000)]
  /\ rlCalls' = [rlCalls EXCEPT ![c].pc = "zadd"]
  /\ RlFrame

RlZadd(c) ==
  /\ rlCalls[c].pc = "zadd"
  /\ rlKey' = [entries |-> RlAdded(RlEntries(rlKey, now), rlCalls[c].now, c),
               expires |-> IF RlEntries(rlKey, now) = {} THEN Null
                           ELSE rlKey.expires]
  /\ rlCalls' = [rlCalls EXCEPT ![c].pc = "zcard"]
  /\ RlFrame

RlZcard(c) ==
  /\ rlCalls[c].pc = "zcard"
  /\ rlCalls' = [rlCalls EXCEPT ![c] =
                   [@ EXCEPT !.pc = "expire",
                             !.count = RlCount(RlEntries(rlKey, now))]]
  /\ UNCHANGED rlKey
  /\ RlFrame

\* The last command of the pipeline; exec() resolves, an allowed call returns.
RlExpire(c) ==
  LET result == RlResult(rlCalls[c].limit, rlCalls[c].window, rlCalls[c].now,
                         rlCalls[c].count, rlCalls[c].now)
  IN /\ rlCalls[c].pc = "expire"
     /\ rlKey' = [rlKey EXCEPT !.expires = now + rlCalls[c].window * 1000]
     /\ rlCalls' = [rlCalls EXCEPT ![c] =
                      IF result.allowed
                        THEN [@ EXCEPT !.pc = "returned", !.allowed = TRUE,
                                       !.remaining = result.remaining]
                        ELSE [@ EXCEPT !.pc = "zrange"]]
     /\ RlFrame

\* A rejected call reads the oldest entry and returns.
RlZrange(c) ==
  LET result == RlResult(rlCalls[c].limit, rlCalls[c].window, rlCalls[c].now,
                         rlCalls[c].count,
                         RlOldestTime(RlEntries(rlKey, now), rlCalls[c].now))
  IN /\ rlCalls[c].pc = "zrange"
     /\ rlCalls' = [rlCalls EXCEPT ![c] =
                      [@ EXCEPT !.pc = "returned",
                                !.retryAfterSeconds = result.retryAfterSeconds]]
     /\ UNCHANGED rlKey
     /\ RlFrame

\* ------------------------------------------ verifySolution, await by await
InFlight == {c \in DOMAIN pv : pv[c].pc \in {"set", "hash"}}

PvReturn(c, ch, reason) ==
  /\ pv' = [pv EXCEPT ![c] = [@ EXCEPT !.pc = "returned", !.challenge = ch,
                                       !.valid = reason = "valid",
                                       !.reason = reason]]
  /\ last' = [NoEvent EXCEPT !.op = "verifySolution", !.challenge = ch,
                             !.valid = reason = "valid", !.reason = reason]
  /\ solved' = IF reason = "valid" THEN solved \cup {ch} ELSE solved
  /\ spent' = IF reason = "insufficient_difficulty"
               THEN spent \cup {ch} ELSE spent

\* The call and its synchronous checks, up to the first await.
PvCall(c, ch, zeroBits, difficulty) ==
  /\ pv[c].pc = "idle"
  /\ IF SyncCheck(ch) = "ok"
       THEN /\ pv' = [pv EXCEPT ![c] = [IdlePv EXCEPT !.pc = "set",
                         !.challenge = ch, !.zeroBits = zeroBits,
                         !.difficulty = difficulty]]
            /\ last' = NoEvent
            /\ UNCHANGED <<solved, spent>>
       ELSE PvReturn(c, ch, SyncCheck(ch))
  /\ UNCHANGED <<now, dbVars, redisVars, issued, admissions, joinPending, pq,
                 rm, challenges, replay, powGate, rlVars, riskVars, opsVars, banList>>

\* await redis.set(replayKey, '1', 'EX', POW_TTL_SECONDS, 'NX')
PvSet(c) ==
  /\ pv[c].pc = "set"
  /\ replay' = SetNx(replay, pv[c].challenge).keys
  /\ IF SetNx(replay, pv[c].challenge).ok
       THEN /\ pv' = [pv EXCEPT ![c].pc = "hash"]
            /\ last' = NoEvent
            /\ UNCHANGED <<solved, spent>>
       ELSE PvReturn(c, pv[c].challenge, "challenge_already_used")
  /\ UNCHANGED <<now, dbVars, redisVars, issued, admissions, joinPending, pq,
                 rm, challenges, powGate, rlVars, riskVars, opsVars, banList>>

\* await sha256Hex(hashInput), countLeadingZeroBits, return
PvHash(c) ==
  /\ pv[c].pc = "hash"
  /\ PvReturn(c, pv[c].challenge, HashCheck(pv[c].zeroBits, pv[c].difficulty))
  /\ UNCHANGED <<now, dbVars, redisVars, issued, admissions, joinPending, pq,
                 rm, challenges, replay, powGate, rlVars, riskVars, opsVars, banList>>

\* ------------------------------------------- SessionManager.addBotScore
\* Evidence the callers record: the layer and the score of a BotScore row.
\* The captcha route records 40 for a failed and -20 for a passed challenge.
Evidence ==
  {[layer |-> "passive", score |-> 0],
   [layer |-> "passive", score |-> 20],
   [layer |-> "active", score |-> 30],
   [layer |-> "behavior", score |-> 90],
   [layer |-> "captcha", score |-> 40],
   [layer |-> "captcha", score |-> 0 - 20]}

\* Every layer weighs the same.
LayerWeightUniform(layer) == 2

\* weights[s.layer] || 1.0, held as twice the weight: 1.5 and 2.5 become 3
\* and 5, and the factor cancels in weightedSum / totalWeight.
LayerWeight(layer) ==
  CASE layer = "passive" -> 2
    [] layer = "active" -> 3
    [] layer = "behavior" -> 4
    [] layer = "captcha" -> 5
    [] OTHER -> 2

\* The loop over the rows findMany returned, in the order it returned them.
RECURSIVE WeightedSum(_)
WeightedSum(rows) ==
  IF rows = <<>> THEN 0
  ELSE Head(rows).score * LayerWeight(Head(rows).layer)
         + WeightedSum(Tail(rows))

RECURSIVE TotalWeight(_)
TotalWeight(rows) ==
  IF rows = <<>> THEN 0
  ELSE LayerWeight(Head(rows).layer) + TotalWeight(Tail(rows))

\* An aggregate in which the row returned last counts twice.
AggregateLastTwice(rows) ==
  IF TotalWeight(rows) > 0
    THEN LET e == rows[Len(rows)]
         IN RatMin(ScoreCap,
                   Ratio(WeightedSum(rows) + e.score * LayerWeight(e.layer),
                         TotalWeight(rows) + LayerWeight(e.layer)))
    ELSE Rat(0)

\* totalWeight > 0 ? Math.min(100, weightedSum / totalWeight) : 0
AggregateScore(rows) ==
  IF TotalWeight(rows) > 0
    THEN RatMin(ScoreCap, Ratio(WeightedSum(rows), TotalWeight(rows)))
    ELSE Rat(0)

\* findMany has no orderBy: the rows may come back in any order.
Orders(rows) ==
  {[i \in 1..Len(rows) |-> rows[p[i]]] : p \in Permutations(1..Len(rows))}

RowsRecorded == Cardinality({<<s, i>> \in Ids \X (1..MaxEvidence) :
                               i <= Len(botScores[s])})

\* addBotScore(s, e.layer, _, e.score): create the row, read all rows of the
\* session, aggregate, then updateRiskScore.
AddBotScoreRows(s, e) ==
  /\ HasRecord(s)
  /\ RowsRecorded < MaxEvidence
  /\ botScores' = [botScores EXCEPT ![s] = Append(@, e)]
  /\ \E rows \in Orders(Append(botScores[s], e)) :
       /\ riskScore' = [riskScore EXCEPT ![s] = AggregateScore(rows)]
       /\ riskLevel' = [riskLevel EXCEPT ![s] =
                          RiskLevelOf(AggregateScore(rows))]
  /\ lastSeenAt' = [lastSeenAt EXCEPT ![s] = now]

AddBotScore(s, e) ==
  /\ AddBotScoreRows(s, e)
  /\ last' = NoEvent
  /\ UNCHANGED <<now, status, isBanned, accessToken, accessTokenExpiresAt,
                 passedCaptcha, failedCount, redisVars, issued, admissions,
                 joinPending, pq, rm, powVars, powGate, rlVars, opsVars, banList>>

\* ------------------------------------------------ BotDetector, telemetry
\* A field of the telemetry body as JSON delivers it: absent, a list of
\* events (its length, whether one element is null, and the pattern the
\* well-formed events show), or a number where a list is expected.
NoField == [kind |-> "absent", length |-> 0, hasNull |-> FALSE,
            pattern |-> "none"]

EventList(n, hasNull, pattern) ==
  [kind |-> "list", length |-> n, hasNull |-> hasNull, pattern |-> pattern]

NotAList == [kind |-> "number", length |-> 0, hasNull |-> FALSE,
             pattern |-> "none"]

MouseInputs == {NoField, NotAList, EventList(6, FALSE, "human"),
                EventList(6, FALSE, "straight"), EventList(6, TRUE, "human")}
ClickInputs == {NoField, EventList(4, FALSE, "rage"), EventList(4, TRUE, "human")}
KeyInputs == {NoField, EventList(3, FALSE, "uniform"), EventList(3, TRUE, "human")}

\* data.f && data.f.length > n: a number has no length, undefined > n is false
LongerThan(f, n) == f.kind = "list" /\ f.length > n

\* !data.f || data.f.length === 0
MissingOrEmpty(f) == f.kind = "absent" \/ (f.kind = "list" /\ f.length = 0)

Scored(score) == [threw |-> FALSE, score |-> score]
TypeError == [threw |-> TRUE, score |-> 0]

\* analyzeMouseMovement: events[i - 1].x is read for every element.
AnalyzeMouseMovement(events) ==
  IF events.length < 3 THEN Scored(0)
  ELSE IF events.hasNull THEN TypeError
  ELSE IF events.pattern = "straight" THEN Scored(30)
  ELSE IF events.pattern = "uniform" THEN Scored(25)
  ELSE Scored(0)

\* analyzeClicks: events[i].t is read from i = 1 on, until a rage click.
AnalyzeClicks(events) ==
  IF events.length < 2 THEN Scored(0)
  ELSE IF events.hasNull THEN TypeError
  ELSE IF events.pattern = "rage" THEN Scored(20)
  ELSE Scored(0)

\* analyzeKeystrokes
AnalyzeKeystrokes(events) ==
  IF events.length < 3 THEN Scored(0)
  ELSE IF events.hasNull THEN TypeError
  ELSE IF events.pattern = "uniform" THEN Scored(20)
  ELSE IF events.pattern = "fast" THEN Scored(30)
  ELSE Scored(0)

\* BotDetector.analyzeBehavior up to its addBotScore call.
BehaviorScore(mouseEvents, clickEvents, keyEvents) ==
  LET mouse == IF LongerThan(mouseEvents, 5)
               THEN AnalyzeMouseMovement(mouseEvents)
               ELSE IF MissingOrEmpty(mouseEvents) THEN Scored(25)
               ELSE Scored(0)
      click == IF LongerThan(clickEvents, 3) THEN AnalyzeClicks(clickEvents)
               ELSE Scored(0)
      key == IF LongerThan(keyEvents, 0) THEN AnalyzeKeystrokes(keyEvents)
             ELSE Scored(0)
  IN IF mouse.threw \/ click.threw \/ key.threw THEN TypeError
     ELSE Scored(Min(100, mouse.score + click.score + key.score))

\* POST /api/telemetry for session s: the raw events stored, analyzeBehavior,
\* and the catch that answers 500.
TelemetryPost(s, mouseEvents, clickEvents, keyEvents) ==
  LET r == BehaviorScore(mouseEvents, clickEvents, keyEvents)
      body == <<mouseEvents, clickEvents, keyEvents>>
  IN /\ s \in Ids
     /\ RowsRecorded < MaxEvidence
     /\ IF r.threw \/ ~HasRecord(s)
        THEN /\ last' = [NoEvent EXCEPT !.op = "POST /api/telemetry", !.id = s,
                                        !.code = 500, !.body = body]
             /\ UNCHANGED <<riskScore, lastSeenAt, riskVars>>
        ELSE /\ AddBotScoreRows(s, [layer |-> "behavior", score |-> r.score])
             /\ last' = [NoEvent EXCEPT !.op = "POST /api/telemetry", !.id = s,
                                        !.code = 200, !.body = body]
     /\ UNCHANGED <<now, status, isBanned, accessToken, accessTokenExpiresAt,
                    passedCaptcha, failedCount, redisVars, issued, admissions,
                    joinPending, pq, rm, powVars, powGate, rlVars, opsVars,
                    banList>>

\* --------------------------- SessionManager.addBotScore, await by await
\* prisma.botScore.create
BsCreate(c, s, e) ==
  /\ bsCalls[c].pc = "idle"
  /\ HasRecord(s)
  /\ RowsRecorded < MaxEvidence
  /\ botScores' = [botScores EXCEPT ![s] = Append(@, e)]
  /\ bsCalls' = [bsCalls EXCEPT ![c] = [IdleBs EXCEPT !.pc = "created", !.id = s]]
  /\ last' = NoEvent
  /\ UNCHANGED <<now, dbVars, redisVars, issued, admissions, joinPending, pq,
                 rm, powVars, powGate, rlVars, riskLevel, banList,
                 schedVars, buyVars, taskVars>>

\* prisma.botScore.findMany and the loop over what it returned
BsFindMany(c) ==
  /\ bsCalls[c].pc = "created"
  /\ \E rows \in Orders(botScores[bsCalls[c].id]) :
       bsCalls' = [bsCalls EXCEPT ![c].pc = "read",
                                  ![c].score = AggregateScore(rows)]
  /\ last' = NoEvent
  /\ UNCHANGED <<now, dbVars, redisVars, issued, admissions, joinPending, pq,
                 rm, powVars, powGate, rlVars, botScores, riskLevel, banList,
                 schedVars, buyVars, taskVars>>

\* updateRiskScore(sessionId, aggregateScore)
BsUpdateRiskScore(c) ==
  /\ bsCalls[c].pc = "read"
  /\ riskScore' = [riskScore EXCEPT ![bsCalls[c].id] = bsCalls[c].score]
  /\ riskLevel' = [riskLevel EXCEPT ![bsCalls[c].id] =
                     RiskLevelOf(bsCalls[c].score)]
  /\ lastSeenAt' = [lastSeenAt EXCEPT ![bsCalls[c].id] = now]
  /\ bsCalls' = [bsCalls EXCEPT ![c] = IdleBs]
  /\ last' = NoEvent
  /\ UNCHANGED <<now, status, isBanned, accessToken, accessTokenExpiresAt,
                 passedCaptcha, failedCount, redisVars, issued, admissions,
                 joinPending, pq, rm, powVars, powGate, rlVars, botScores, banList,
                 schedVars, buyVars, taskVars>>

\* ------------------------------------------------- deleting session rows
\* The purge also takes ADMITTED sessions.
PurgeStatusesWithAdmitted == {"EXPIRED", "COMPLETED", "BANNED", "ADMITTED"}

\* purgeOldData: status: { in: ['EXPIRED', 'COMPLETED', 'BANNED'] }
PurgeStatuses == {"EXPIRED", "COMPLETED", "BANNED"}

\* The session columns of the rows in S after prisma.session.deleteMany.
DeleteSessions(S) ==
  /\ status' = [s \in Ids |-> IF s \in S THEN "DELETED" ELSE status[s]]
  /\ isBanned' = [s \in Ids |-> IF s \in S THEN FALSE ELSE isBanned[s]]
  /\ accessToken' = [s \in Ids |-> IF s \in S THEN NoToken ELSE accessToken[s]]
  /\ accessTokenExpiresAt' =
       [s \in Ids |-> IF s \in S THEN Null ELSE accessTokenExpiresAt[s]]
  /\ lastSeenAt' = [s \in Ids |-> IF s \in S THEN Null ELSE lastSeenAt[s]]
  /\ riskScore' = [s \in Ids |-> IF s \in S THEN Rat(0) ELSE riskScore[s]]
  /\ riskLevel' = [s \in Ids |-> IF s \in S THEN "LOW" ELSE riskLevel[s]]

\* QueueProcessor.purgeOldData. The model keeps no updatedAt: old is the set
\* of sessions whose updatedAt lies before the cutoff, which a request in
\* flight for a session rules out.
PurgeOldData(old) ==
  LET purged == {s \in old : status[s] \in PurgeStatuses}
  IN /\ old \cap joinPending = {}
     /\ purged # {}
     /\ DeleteSessions(purged)
     /\ banList' = [ip \in Ips |->
                      IF banList[ip] # Null /\ banList[ip] < now THEN Null
                      ELSE banList[ip]]
     /\ last' = [NoEvent EXCEPT !.op = "purgeOldData", !.old = old]
     /\ UNCHANGED <<now, passedCaptcha, failedCount, redisVars, issued,
                    admissions, joinPending, pq, rm, powVars, powGate, rlVars,
                    botScores, opsVars>>

\* DELETE /api/admin/sessions: every table emptied in one transaction, then
\* the three queue keys deleted.
AdminPurgeAll ==
  /\ joinPending = {}
  /\ \E s \in Ids : HasRecord(s)
  /\ DeleteSessions({s \in Ids : HasRecord(s)})
  /\ passedCaptcha' = [s \in Ids |-> FALSE]
  /\ failedCount' = [s \in Ids |-> 0]
  /\ botScores' = [s \in Ids |-> <<>>]
  /\ banList' = [ip \in Ips |-> Null]
  /\ queue' = {}
  /\ positions' = [m \in Members |-> NoEntry]
  /\ admitted' = [s \in Ids |-> NoToken]
  /\ last' = [NoEvent EXCEPT !.op = "DELETE /api/admin/sessions"]
  /\ UNCHANGED <<now, issued, admissions, joinPending, pq, rm, powVars,
                 powGate, rlVars, opsVars>>

\* ------------------------------------------ QueueProcessor.start and stop
\* The periodic tasks, in the order start registers them.
TaskOrder ==
  <<"processQueue", "cleanupExpiredTokens", "garbageCollectSessions",
    "enforceChallenges", "refreshPositions", "cleanupExpiredBans", "stats">>
Tasks == Range(TaskOrder)

\* A start guard that never finds the processor running.
NeverRunning == FALSE

\* if (isRunning) return;
AlreadyRunning == isRunning

\* The handles one start call pushes: one setInterval per task.
NewHandles == [i \in DOMAIN TaskOrder |-> [gen |-> starts + 1, task |-> TaskOrder[i]]]

SchedFrame ==
  UNCHANGED <<now, dbVars, redisVars, issued, admissions, joinPending, pq, rm,
              powVars, powGate, rlVars, riskVars, bsCalls, banList, buyVars, taskVars>>

Start ==
  /\ ~crashed
  /\ lastCall' = "start"
  /\ IF AlreadyRunning
       THEN /\ last' = [NoEvent EXCEPT !.op = "start"]
            /\ UNCHANGED <<isRunning, handles, timers, starts>>
       ELSE /\ starts < MaxStarts
            /\ isRunning' = TRUE
            /\ handles' = handles \o NewHandles
            /\ timers' = timers \cup Range(NewHandles)
            /\ starts' = starts + 1
            /\ last' = [NoEvent EXCEPT !.op = "start",
                                       !.registered = Len(NewHandles)]
  /\ UNCHANGED <<firings, crashed, thrown>>
  /\ SchedFrame

Stop ==
  /\ ~crashed
  /\ lastCall' = "stop"
  /\ timers' = timers \ Range(handles)
  /\ handles' = <<>>
  /\ isRunning' = FALSE
  /\ last' = [NoEvent EXCEPT !.op = "stop"]
  /\ UNCHANGED <<starts, firings, crashed, thrown>>
  /\ SchedFrame

\* --------------------------------------------- the interval callbacks
\* Only the stats callback has no try/catch.
CatchesButStats(task) == task # "stats"

\* Every callback start registers wraps its task in try/catch.
Catches(task) == task \in Tasks

\* What one run of a callback does to the scheduler: the error of a body
\* that throws is caught and logged; uncaught, it would end the process.
Fired(h, throws) ==
  /\ h \in timers
  /\ ~crashed
  /\ firings < MaxFirings
  /\ firings' = firings + 1
  /\ thrown' = IF throws THEN thrown \cup {h.task} ELSE thrown
  /\ crashed' = (throws /\ ~Catches(h.task))
  /\ timers' = IF throws /\ ~Catches(h.task) THEN {} ELSE timers
  /\ UNCHANGED <<isRunning, handles, starts, lastCall>>

\* A callback other than the admit loop; what its body writes is left to the
\* specifications of the tasks.
FireTask(h, throws) ==
  /\ h.task # "processQueue"
  /\ Fired(h, throws)
  /\ last' = [NoEvent EXCEPT !.op = "tick", !.task = h.task, !.threw = throws]
  /\ SchedFrame

\* Where the handling of one candidate may throw: nowhere, at findUnique, or
\* at the zrem that takes it out of the queue.
FaultPoints == {"none", "findUnique", "zrem"}

\* processQueue after its zrange: each candidate of the batch handled inside
\* its own try/catch, faults[m] saying where the handling of m throws.
HandleCandidates(faults) ==
  LET batch == ProcessBatch
      ids == Range(batch)
      failed == {m \in ids : faults[m] # "none"}
      tokened == {m \in ids : Admissible(m) /\ faults[m] # "findUnique"}
      adm == {m \in ids : Admissible(m) /\ faults[m] = "none"}
      admittedIds == SelectSeq(batch, LAMBDA m : m \in adm)
      removed == ids \ failed
  IN /\ queue' = RemovedQueue(queue, removed)
     /\ positions' = RemovedPositions(positions, removed)
     /\ issued' = [s \in Ids |->
                     IF s \in tokened THEN issued[s] + 1 ELSE issued[s]]
     /\ admitted' = [s \in Ids |->
                       IF s \in tokened THEN issued[s] + 1
                       ELSE admitted[s]]
     /\ admissions' = [s \in Ids |->
                         IF s \in adm /\ status[s] = "IN_QUEUE"
                           THEN admissions[s] + 1 ELSE admissions[s]]
     /\ status' = [s \in Ids |->
                     IF s \in adm THEN "ADMITTED" ELSE status[s]]
     /\ accessToken' = [s \in Ids |->
                          IF s \in adm THEN issued[s] + 1
                          ELSE accessToken[s]]
     /\ accessTokenExpiresAt' =
          [s \in Ids |-> IF s \in adm THEN now + AccessTokenTtl
                         ELSE accessTokenExpiresAt[s]]
     /\ last' = [NoEvent EXCEPT !.op = "tick", !.task = "processQueue",
                                !.batch = batch, !.ids = admittedIds,
                                !.failed = failed]
     /\ UNCHANGED <<isBanned, lastSeenAt, riskScore, passedCaptcha,
                    failedCount>>

\* The admit loop: processQueue throws as a whole when its zrange throws;
\* otherwise each candidate is handled inside its own try/catch.
FireProcessQueue(h, throws, faults) ==
  /\ h.task = "processQueue"
  /\ Fired(h, throws)
  /\ \A p \in DOMAIN pq : pq[p].pc = "idle"
  /\ IF throws
       THEN /\ last' = [NoEvent EXCEPT !.op = "tick", !.task = h.task,
                                       !.threw = TRUE]
            /\ UNCHANGED <<dbVars, redisVars, issued, admissions>>
       ELSE HandleCandidates(faults)
  /\ UNCHANGED <<now, joinPending, pq, rm, powVars, powGate, rlVars,
                 riskVars, bsCalls, banList, buyVars, taskVars>>

\* The candidates whose handling may fail, on any tick and on every tick.
FaultyIds == {1}

FaultsOn(faulty) ==
  {faults \in [Range(ProcessBatch) -> FaultPoints] :
     \A m \in Range(ProcessBatch) :
       /\ m \notin faulty => faults[m] = "none"
       /\ faults[m] = "zrem" => (m \in Ids /\ issued[m] < MaxTokens)}

\* The admit loop of a started processor, for as long as the process runs:
\* its interval fires again and again.
AdmitLoop ==
  /\ \E h \in timers : h.task = "processQueue"
  /\ ~crashed
  /\ \A p \in DOMAIN pq : pq[p].pc = "idle"
  /\ \E faults \in FaultsOn(FaultyIds) : HandleCandidates(faults)
  /\ UNCHANGED <<now, joinPending, pq, rm, powVars, powGate, rlVars,
                 riskVars, opsVars, banList>>

\* -------------------------------------------------------- specifications
\* The queue: joins, the admission tick and everything else that writes the
\* sorted set, whole handlers one at a time.
Next ==
  \/ Tick(MaxTime)
  \/ \E s \in Ids, r \in RiskScores : CreateSession(s, r)
  \/ \E s \in Ids : JoinDecision(s)
  \/ ProcessQueue
  \/ EnforceChallenges
  \/ GarbageCollectSessions
  \/ AutoRefillQueue
  \/ \E s \in Ids, position \in PatchPositions : PatchPosition(s, position)

Spec == Init /\ [][Next]_vars

\* The order of the queue over a longer run of the clock, with the admin
\* removals.
NextFifo ==
  \/ Tick(FifoMaxTime)
  \/ \E s \in Ids, r \in RiskScores : CreateSession(s, r)
  \/ \E s \in Ids : JoinDecision(s)
  \/ ProcessQueue
  \/ EnforceChallenges
  \/ GarbageCollectSessions
  \/ AutoRefillQueue
  \/ \E s \in Ids, position \in PatchPositions : PatchPosition(s, position)
  \/ \E s \in Ids : AdminBan(s)
  \/ \E s \in Ids : AdminRemove(s)

SpecFifo == Init /\ [][NextFifo]_vars

\* The session lifecycle: every handler and task that writes Session.status.
NextLifecycle ==
  \/ Tick(LifeMaxTime)
  \/ \E s \in LifeIds, r \in RiskScores : CreateSession(s, r)
  \/ \E s \in LifeIds : JoinDecision(s)
  \/ ProcessQueue
  \/ EnforceChallenges
  \/ CleanupExpiredTokens
  \/ GarbageCollectSessions
  \/ \E s \in LifeIds, passed \in BOOLEAN, r \in RiskScores : CaptchaVerify(s, passed, r)
  \/ \E s \in LifeIds : ChallengePage(s)
  \/ \E s \in LifeIds : PurchasePage(s)
  \/ \E s \in LifeIds : Purchase(s)
  \/ \E s \in LifeIds : AdminBan(s)
  \/ \E s \in LifeIds : AdminUnban(s)
  \/ \E s \in LifeIds : AdminRemove(s)
  \/ \E s \in LifeIds : TouchSession(s)

SpecLifecycle == Init /\ [][NextLifecycle]_vars

\* The admission tick await by await, several calls in flight, against joins
\* and bans.
NextRace ==
  \/ Tick(MaxTime)
  \/ \E s \in Ids, r \in RiskScores : JoinRequest(s, r, NoPow)
  \/ \E s \in Ids : AdminBan(s)
  \/ \E p \in DOMAIN pq : PqZrange(p)
  \/ \E p \in DOMAIN pq : PqFindUnique(p)
  \/ \E p \in DOMAIN pq : PqSkipZrem(p)
  \/ \E p \in DOMAIN pq : PqSkipHdel(p)
  \/ \E p \in DOMAIN pq : PqHset(p)
  \/ \E p \in DOMAIN pq : PqZrem(p)
  \/ \E p \in DOMAIN pq : PqHdel(p)
  \/ \E p \in DOMAIN pq : PqUpdate(p)

SpecRace == Init /\ [][NextRace]_vars

\* QueueManager and SessionManager called directly, in any order.
NextApi ==
  \/ Tick(MaxTime)
  \/ \E s \in Ids : ApiCreateSession(s)
  \/ \E s \in Ids : ApiJoinQueue(s)
  \/ \E s \in Ids : ApiRemoveFromQueue(s)
  \/ ProcessQueue

SpecApi == Init /\ [][NextApi]_vars

\* removeFromQueue called on one id several times, one call after another or
\* overlapping, on every state joins and admissions lead to; nothing else
\* runs once the first call is made.
NextRemove ==
  \/ \E s \in RemoveIds : NoRemoval /\ ApiCreateSession(s)
  \/ \E s \in RemoveIds : NoRemoval /\ ApiJoinQueue(s)
  \/ NoRemoval /\ ProcessQueue
  \/ \E c \in DOMAIN rm.pc, s \in RemoveIds : RmCall(c, s)
  \/ \E c \in DOMAIN rm.pc : RmZrem(c)
  \/ \E c \in DOMAIN rm.pc : RmHdelPositions(c)
  \/ \E c \in DOMAIN rm.pc : RmHdelAdmitted(c)

SpecRemove == Init /\ [][NextRemove]_vars

\* Proof of work: challenges are generated and solutions verified, one whole
\* call at a time, as the clock runs past the challenge lifetime.
NextPow ==
  \/ Tick(PowMaxTime)
  \/ GenerateChallenge
  \/ \E ch \in Presented, z \in LeadingZeroBits, d \in Difficulties :
       VerifySolution(ch, z, d)

SpecPow == Init /\ [][NextPow]_vars

\* verifySolution calls overlapping, one awaited request at a time.  A call
\* returns within the clock reading it was made at: the readings are minutes
\* apart, the requests take milliseconds.
NextPowRace ==
  \/ InFlight = {} /\ Tick(PowMaxTime)
  \/ Cardinality(challenges) < RaceChallenges /\ GenerateChallenge
  \/ \E c \in DOMAIN pv, ch \in Presented, z \in LeadingZeroBits :
       PvCall(c, ch, z, DefaultDifficulty)
  \/ \E c \in DOMAIN pv : PvSet(c)
  \/ \E c \in DOMAIN pv : PvHash(c)

SpecPowRace == Init /\ [][NextPowRace]_vars

\* Join requests with and without a proof of work, against the challenges
\* handed out.
NextJoin ==
  \/ Tick(PowMaxTime)
  \/ GenerateChallenge
  \/ \E s \in Ids, r \in RiskScores, pw \in PowInputs : JoinRequest(s, r, pw)

SpecJoin == Init /\ [][NextJoin]_vars

\* Expiry: tokens are issued and challenges handed out, the clock runs past
\* their lifetimes, and both are presented again, before or after the sweep
\* of expired tokens.
NextExpiry ==
  \/ Tick(PowMaxTime)
  \/ \E s \in LifeIds, r \in RiskScores : JoinRequest(s, r, NoPow)
  \/ ProcessQueue
  \/ CleanupExpiredTokens
  \/ \E s \in LifeIds : ValidateAccessToken(s)
  \/ Cardinality(challenges) < RaceChallenges /\ GenerateChallenge
  \/ \E ch \in challenges, z \in LeadingZeroBits :
       VerifySolution(ch, z, DefaultDifficulty)

SpecExpiry == Init /\ [][NextExpiry]_vars

\* RateLimiter.check called on one key with one limit and window, one call
\* after another, as the clock runs.
NextRate ==
  \/ RlTick
  \/ \E limit \in Limits, windowSeconds \in Windows : RlCheck(limit, windowSeconds)

SpecRate == Init /\ [][NextRate]_vars

\* RateLimiter.check called on one empty key by several requests at once,
\* served over different Redis connections.
NextRateRace ==
  \/ \E c \in DOMAIN rlCalls, limit \in Limits, windowSeconds \in Windows :
       RlStart(c, limit, windowSeconds)
  \/ \E c \in DOMAIN rlCalls : RlZremrangebyscore(c)
  \/ \E c \in DOMAIN rlCalls : RlZadd(c)
  \/ \E c \in DOMAIN rlCalls : RlZcard(c)
  \/ \E c \in DOMAIN rlCalls : RlExpire(c)
  \/ \E c \in DOMAIN rlCalls : RlZrange(c)

SpecRateRace == Init /\ [][NextRateRace]_vars

\* Sessions are created and evidence is recorded for them, one addBotScore
\* call after another.
NextRisk ==
  \/ \E s \in LifeIds : ApiCreateSession(s)
  \/ \E s \in LifeIds, e \in Evidence : AddBotScore(s, e)

SpecRisk == Init /\ [][NextRisk]_vars

\* addBotScore calls for the sessions overlap.
NextRiskRace ==
  \/ \E s \in LifeIds : ApiCreateSession(s)
  \/ \E c \in 1..MaxScorers, s \in LifeIds, e \in Evidence : BsCreate(c, s, e)
  \/ \E c \in 1..MaxScorers : BsFindMany(c)
  \/ \E c \in 1..MaxScorers : BsUpdateRiskScore(c)

SpecRiskRace == Init /\ [][NextRiskRace]_vars

\* enforceChallenges at work on sessions that join, are admitted and pass
\* captchas; the clock stands still.
NextEnforce ==
  \/ \E s \in Ids, r \in RiskScores : CreateSession(s, r)
  \/ \E s \in Ids : JoinDecision(s)
  \/ ProcessQueue
  \/ EnforceChallenges
  \/ \E s \in Ids, r \in CaptchaScores : CaptchaVerify(s, TRUE, r)

SpecEnforce == Init /\ [][NextEnforce]_vars

\* garbageCollectSessions at work on sessions that join, are sent to the
\* challenge page and poll, while the clock runs.
NextGc ==
  \/ Tick(LifeMaxTime)
  \/ \E s \in Ids, r \in JoinScores : CreateSession(s, r)
  \/ \E s \in Ids : JoinDecision(s)
  \/ GarbageCollectSessions
  \/ \E s \in Ids : ChallengePage(s)
  \/ \E s \in Ids : TouchSession(s)

SpecGc == Init /\ [][NextGc]_vars

\* cleanupExpiredTokens at work on sessions that are admitted and open the
\* purchase page, while the clock runs.
NextTokens ==
  \/ Tick(LifeMaxTime)
  \/ \E s \in Ids, r \in JoinScores : CreateSession(s, r)
  \/ \E s \in Ids : JoinDecision(s)
  \/ ProcessQueue
  \/ CleanupExpiredTokens
  \/ \E s \in Ids : PurchasePage(s)

SpecTokens == Init /\ [][NextTokens]_vars

\* The scheduler: start and stop calls in any order, and the interval
\* callbacks of the tasks firing between them.
NextScheduler ==
  \/ Start
  \/ Stop
  \/ \E h \in timers, throws \in BOOLEAN : FireTask(h, throws)
  \/ \E h \in timers, throws \in BOOLEAN :
       \E faults \in [Range(ProcessBatch) -> FaultPoints] :
         FireProcessQueue(h, throws, faults)

SpecScheduler == Init /\ [][NextScheduler]_vars

\* The callbacks of a started processor firing while sessions join the queue.
NextFaults ==
  \/ Start
  \/ \E h \in timers, throws \in BOOLEAN : FireTask(h, throws)
  \/ \E h \in timers, throws \in BOOLEAN :
       \E faults \in [Range(ProcessBatch) -> FaultPoints] :
         FireProcessQueue(h, throws, faults)
  \/ \E s \in Ids, r \in JoinScores : CreateSession(s, r)
  \/ \E s \in Ids : JoinDecision(s)

SpecFaults == Init /\ [][NextFaults]_vars

\* Sessions join, are admitted, banned or removed, and rows are deleted by
\* the retention purge and by the admin purge.
NextPurge ==
  \/ \E s \in Ids, r \in JoinScores : CreateSession(s, r)
  \/ \E s \in Ids : JoinDecision(s)
  \/ ProcessQueue
  \/ \E s \in Ids : AdminRemove(s)
  \/ \E old \in SUBSET Ids : PurgeOldData(old)
  \/ AdminPurgeAll

SpecPurge == Init /\ [][NextPurge]_vars

\* Sessions join and are admitted; purchase requests whose awaits interleave.
NextPurchase ==
  \/ \E s \in Ids, r \in JoinScores : CreateSession(s, r)
  \/ \E s \in Ids : JoinDecision(s)
  \/ ProcessQueue
  \/ \E c \in 1..MaxBuyers, s \in Ids : PurchaseValidate(c, s)
  \/ \E c \in 1..MaxBuyers : PurchaseComplete(c)

SpecPurchase == Init /\ [][NextPurchase]_vars

\* Telemetry bodies, well-formed and malformed, posted for the sessions.
NextTelemetry ==
  \/ \E s \in LifeIds : ApiCreateSession(s)
  \/ \E s \in LifeIds, m \in MouseInputs, c \in ClickInputs, k \in KeyInputs :
       TelemetryPost(s, m, c, k)

SpecTelemetry == Init /\ [][NextTelemetry]_vars

\* A started processor whose admit loop keeps firing while sessions join and
\* the handling of one candidate may fail on every tick.
NextAdmit ==
  \/ Start
  \/ \E s \in Ids, r \in JoinScores : CreateSession(s, r)
  \/ \E s \in Ids : JoinDecision(s)
  \/ AdmitLoop

SpecAdmit == Init /\ [][NextAdmit]_vars /\ WF_vars(AdmitLoop)

\* processQueue running between the query and the writes of the two
\* select-then-update tasks.
NextTaskRace ==
  \/ Tick(LifeMaxTime)
  \/ \E s \in Ids, r \in RaceScores : CreateSession(s, r)
  \/ \E s \in Ids : JoinDecision(s)
  \/ ProcessQueue
  \/ GcFindMany
  \/ GcUpdateMany
  \/ EcFindMany
  \/ EcLoop

SpecTaskRace == Init /\ [][NextTaskRace]_vars

\* Challenges verified and presented again up to, at and after the end of
\* their lifetime and of their marker's.
NextMarker ==
  \/ MarkerTick
  \/ GenerateChallenge
  \/ \E ch \in Presented, z \in LeadingZeroBits :
       VerifySolution(ch, z, DefaultDifficulty)

SpecMarker == Init /\ [][NextMarker]_vars

\* ================================================================ properties
\* The time a queue member was enqueued: joinedAt of its positions entry.
EnqueuedAt(m) == positions[m]

\* The sessions a step moves to ADMITTED.
NewlyAdmitted == {s \in Ids : status'[s] = "ADMITTED" /\ status[s] # "ADMITTED"}

\* C1: processQueue admits only from the lowest-scored end of the queue: no
\* session becomes ADMITTED while a non-banned session with a strictly
\* earlier enqueue time is still a member of the queue.
C1_AdmittedInEnqueueOrder ==
  [][\A s \in NewlyAdmitted :
       \A m \in Ids \ {s} :
         (m \in ZMembers(queue') /\ ~isBanned'[m])
           => ~(EnqueuedAt(m) < EnqueuedAt(s))]_vars

\* C2: no session is admitted twice, whatever the interleaving of admission
\* ticks (overlapping ones included) with joins and removals: each session id
\* goes from IN_QUEUE to ADMITTED at most once and receives at most one
\* access token.
C2_AdmittedAtMostOnce ==
  \A s \in Ids : admissions[s] <= 1 /\ issued[s] <= 1

\* C3: a banned session is never admitted, whatever the interleaving of
\* processQueue with the ban operations: no session with isBanned = true
\* ends up with status ADMITTED, and no access token is issued to one.
C3_BannedNeverAdmitted ==
  [][\A s \in Ids :
       /\ isBanned'[s] => status'[s] # "ADMITTED"
       /\ isBanned[s] => /\ issued'[s] = issued[s]
                         /\ accessToken'[s] \in {accessToken[s], NoToken}]_vars

\* The lifecycle graph of the specification.
NonTerminal == {"ACTIVE", "IN_QUEUE", "CHALLENGED", "ADMITTED", "PURCHASING"}
Terminal == {"BANNED", "EXPIRED", "COMPLETED"}
LifecycleEdges ==
  {<<"ACTIVE", "IN_QUEUE">>, <<"IN_QUEUE", "CHALLENGED">>,
   <<"CHALLENGED", "IN_QUEUE">>, <<"IN_QUEUE", "ADMITTED">>,
   <<"ADMITTED", "PURCHASING">>, <<"PURCHASING", "COMPLETED">>}
    \cup (NonTerminal \X {"BANNED", "EXPIRED"})

\* C4: every status change made by any operation is an edge of the lifecycle
\* graph (ACTIVE -> IN_QUEUE, IN_QUEUE <-> CHALLENGED, IN_QUEUE -> ADMITTED ->
\* PURCHASING -> COMPLETED, any non-terminal status -> BANNED or EXPIRED).
C4_StatusChangesAreEdges ==
  [][\A s \in Ids :
       (HasRecord(s) /\ status'[s] # status[s])
         => <<status[s], status'[s]>> \in LifecycleEdges]_vars

\* C5: BANNED, EXPIRED and COMPLETED are absorbing: once a session has one of
\* these statuses, no later operation changes its status.
C5_TerminalAbsorbing ==
  [][\A s \in Ids : status[s] \in Terminal => status'[s] = status[s]]_vars

\* C6: a session's accessToken is non-null exactly when its status is
\* ADMITTED or PURCHASING.
C6_TokenIffAdmitted ==
  \A s \in Ids :
    accessToken[s] # NoToken <=> status[s] \in {"ADMITTED", "PURCHASING"}

\* C7: FIFO positions: for two sessions that are both in the queue, the one
\* enqueued earlier is reported a strictly smaller 1-indexed position, by
\* getQueueStatus and by joinQueue, after any sequence of joins, removals,
\* admissions and position requests.
C7_FifoPositions ==
  \A a, b \in Ids :
    (/\ a \in ZMembers(queue) /\ b \in ZMembers(queue)
     /\ EnqueuedAt(a) # NoEntry /\ EnqueuedAt(b) # NoEntry
     /\ EnqueuedAt(a) < EnqueuedAt(b))
      => /\ GetQueueStatus(a).position < GetQueueStatus(b).position
         /\ (last.op = "joinQueue" /\ last.id = b)
              => GetQueueStatus(a).position < last.pos

\* The members processQueue reads: the first BatchSize of the queue.
FirstBatch == {m \in ZMembers(queue) : ZRank(queue, m) < BatchSize}

\* What one whole processQueue call did, in terms of the state before it.
TickReducesBy(n) == ZCard(queue') = ZCard(queue) - n
TickAdmits(n) ==
  /\ Cardinality(NewlyAdmitted) = n
  /\ Len(last'.ids) = n
  /\ \A i \in 1..Len(last'.ids) :
       /\ status'[last'.ids[i]] = "ADMITTED"
       /\ accessToken'[last'.ids[i]] # NoToken

\* C8 as stated: when the queue holds at least batchSize members and none of
\* the first batchSize is banned, one tick shortens the queue by exactly
\* batchSize and admits exactly batchSize sessions, each holding a token.
C8_FullBatchAdmitted ==
  [][(/\ last'.op = "processQueue"
      /\ ZCard(queue) >= BatchSize
      /\ \A m \in FirstBatch : ~(m \in Ids /\ isBanned[m]))
       => TickReducesBy(BatchSize) /\ TickAdmits(BatchSize)]_vars

\* C8 amended: the same, when in addition every one of the first batchSize
\* members has a session record.
C8_FullBatchOfRecordsAdmitted ==
  [][(/\ last'.op = "processQueue"
      /\ ZCard(queue) >= BatchSize
      /\ \A m \in FirstBatch : HasRecord(m) /\ ~isBanned[m])
       => TickReducesBy(BatchSize) /\ TickAdmits(BatchSize)]_vars

\* A tick has just read a full batch and admitted all of it.
C8_Witness ==
  /\ last.op = "processQueue"
  /\ Len(last.batch) = BatchSize
  /\ Len(last.ids) = BatchSize

\* The members of the first batch processQueue does not admit.
Skipped == {m \in FirstBatch : ~HasRecord(m) \/ isBanned[m]}

\* C9: if k of the first batchSize queue entries are banned or have no
\* session record, one tick removes all batchSize entries from the queue,
\* admits exactly batchSize - k sessions, and leaves every member after the
\* first batchSize in the queue with its status unchanged.
C9_SkippedEntriesRemoved ==
  [][(last'.op = "processQueue" /\ ZCard(queue) >= BatchSize)
       => /\ ZMembers(queue') = ZMembers(queue) \ FirstBatch
          /\ TickReducesBy(BatchSize)
          /\ TickAdmits(BatchSize - Cardinality(Skipped))
          /\ \A m \in ZMembers(queue) \ FirstBatch :
               /\ m \in ZMembers(queue')
               /\ ZScore(queue', m) = ZScore(queue, m)
               /\ m \in Ids => status'[m] = status[m]]_vars

\* A tick has just read a full batch, skipped part of it and admitted the
\* rest, and a member behind the batch is still queued.
C9_Witness ==
  /\ last.op = "processQueue"
  /\ Len(last.batch) = BatchSize
  /\ Len(last.ids) > 0
  /\ Len(last.ids) < BatchSize
  /\ \E s \in Ids : s \in ZMembers(queue) /\ status[s] = "IN_QUEUE"

\* C10: the queue holds at most one entry per session id, and joinQueue for
\* an id that is already queued does not increase the queue length.
C10_OneEntryPerSession ==
  [][/\ \A m \in Members : Cardinality({e \in queue' : e.id = m}) <= 1
     /\ \A s \in Ids :
          (last'.op \in {"joinQueue", "joinQueue throws"} /\ last'.id = s
             /\ s \in ZMembers(queue))
            => ZCard(queue') = ZCard(queue)]_vars

\* joinQueue has just returned for an id that was already queued when it was
\* called, and another member is ahead of it in the queue.
C10_Witness ==
  /\ last.op = "joinQueue"
  /\ last.queued
  /\ ZCard(queue) > 1
  /\ \E e \in queue : e.id # last.id /\ e.score < ZScore(queue, last.id)

\* C11: once every removeFromQueue call made on an id has returned, be it one
\* call, two in sequence or two overlapping in any order of their requests,
\* the queue, the positions and the admitted entries are what one whole call
\* leaves of them, whether or not a key held the id.
Returned == {c \in DOMAIN rm.pc : rm.pc[c] = "returned"}

C11_RemoveIdempotent ==
  (Returned # {} /\ \A c \in DOMAIN rm.pc : rm.pc[c] \in {"idle", "returned"})
    => <<queue, positions, admitted>> = rm.one

\* Two calls have returned on an id that a key held.
C11_Witness == Cardinality(Returned) >= 2 /\ rm.found

\* A verifySolution call has just returned.
Verified == last'.op = "verifySolution" /\ last' # last

\* C12 as stated: on a generated challenge within its lifetime and with no
\* earlier call, a nonce that meets the difficulty is found valid, and every
\* call on a challenge found valid before returns invalid with reason
\* challenge_already_used.
C12_ReplayAlreadyUsed ==
  [][Verified =>
       /\ (/\ last'.challenge \in challenges
           /\ ~ChallengeExpired(last'.challenge)
           /\ ~\E k \in replay : k.challenge = last'.challenge
           /\ \E z \in LeadingZeroBits, d \in Difficulties :
                z >= d /\ last' = VerifyResult(last'.challenge, z, d))
            => last'.valid
       /\ last'.challenge \in solved
            => ~last'.valid /\ last'.reason = "challenge_already_used"]_vars

\* C12: on a generated challenge within its lifetime and with no earlier
\* call, a nonce that meets the difficulty is found valid; every call on a
\* challenge found valid before returns invalid, with reason
\* challenge_already_used within the lifetime of the challenge and
\* challenge_expired after it.
C12_ReplayRejected ==
  [][Verified =>
       /\ (/\ last'.challenge \in challenges
           /\ ~ChallengeExpired(last'.challenge)
           /\ ~\E k \in replay : k.challenge = last'.challenge
           /\ \E z \in LeadingZeroBits, d \in Difficulties :
                z >= d /\ last' = VerifyResult(last'.challenge, z, d))
            => last'.valid
       /\ last'.challenge \in solved
            => /\ ~last'.valid
               /\ last'.reason = IF ChallengeExpired(last'.challenge)
                                   THEN "challenge_expired"
                                   ELSE "challenge_already_used"]_vars

\* A challenge found valid before has just been refused as already used.
C12_Witness ==
  /\ last.op = "verifySolution"
  /\ last.challenge \in solved
  /\ last.reason = "challenge_already_used"

\* The calls that presented challenge ch and passed the synchronous checks.
CallsOn(ch) ==
  {c \in DOMAIN pv : /\ pv[c].challenge = ch
                     /\ pv[c].pc \in {"set", "hash"}
                        \/ /\ pv[c].pc = "returned"
                           /\ pv[c].reason \in {"valid", "challenge_already_used",
                                                 "insufficient_difficulty"}}

\* C13: when two or more verifySolution calls present the same generated,
\* unexpired challenge, each with a nonce meeting its difficulty, then in
\* every order of their requests exactly one returns valid and every other
\* one returns invalid with reason challenge_already_used.
C13_OneSuccess ==
  \A ch \in challenges :
    (/\ Cardinality(CallsOn(ch)) >= 2
     /\ \A c \in CallsOn(ch) :
          pv[c].pc = "returned" /\ pv[c].zeroBits >= pv[c].difficulty)
      => /\ Cardinality({c \in CallsOn(ch) : pv[c].valid}) = 1
         /\ \A c \in CallsOn(ch) :
              pv[c].valid \/ pv[c].reason = "challenge_already_used"

\* Two calls on one challenge overlapped: the one refused returned before the
\* one found valid did.
C13_Witness ==
  /\ last.op = "verifySolution" /\ last.valid
  /\ \E c \in CallsOn(last.challenge) :
       pv[c].pc = "returned" /\ pv[c].reason = "challenge_already_used"

\* C14: every session a join request has placed in the queue belongs to a
\* request for which verifySolution returned valid at the difficulty the
\* server requires.
C14_PowBeforeEnqueue ==
  \A s \in Ids :
    s \in ZMembers(queue)
      => powGate[s].verified /\ powGate[s].difficulty >= DefaultDifficulty

\* C15: validateAccessToken returns invalid for a token whose
\* accessTokenExpiresAt is earlier than now, and verifySolution returns
\* challenge_expired for a generated challenge older than the TTL, whether
\* or not the sweep has cleared them.
C15_ExpiryOnRead ==
  /\ (/\ last.op = "validateAccessToken"
      /\ accessTokenExpiresAt[last.id] # Null
      /\ accessTokenExpiresAt[last.id] < now)
       => ~last.valid
  /\ (/\ last.op = "verifySolution"
      /\ last.challenge \in challenges
      /\ now - last.challenge.timestamp > PowTtl)
       => ~last.valid /\ last.reason = "challenge_expired"

\* validateAccessToken was given an expired token the sweep has not cleared,
\* of a session that is still ADMITTED and not banned.
C15_Witness ==
  /\ last.op = "validateAccessToken"
  /\ accessTokenExpiresAt[last.id] # Null
  /\ accessTokenExpiresAt[last.id] < now
  /\ status[last.id] = "ADMITTED"
  /\ ~isBanned[last.id]
  /\ accessToken[last.id] # NoToken

\* The calls 1..k on the key all fall inside one window.
InOneWindow(k) == rlLog[k].at - rlLog[1].at < rlLog[1].window * 1000

\* C16: for calls made one after another on an empty key inside a single
\* window, with limit L and window W: calls 1..L return allowed with
\* remaining = L - (number of the call), and call L + 1 returns not allowed,
\* remaining 0 and retryAfterSeconds in (0, W].
C16_SlidingWindow ==
  \A k \in 1..Len(rlLog) :
    InOneWindow(k) =>
      /\ k <= rlLog[k].limit =>
           /\ rlLog[k].allowed
           /\ rlLog[k].remaining = rlLog[k].limit - k
      /\ k = rlLog[k].limit + 1 =>
           /\ ~rlLog[k].allowed
           /\ rlLog[k].remaining = 0
           /\ rlLog[k].retryAfterSeconds > 0
           /\ rlLog[k].retryAfterSeconds <= rlLog[k].window

\* Call L + 1 was made inside the window, later than the first call, after L
\* calls that were allowed.
C16_Witness ==
  /\ rlLog # <<>>
  /\ rlLog[1].limit >= 1
  /\ Len(rlLog) > rlLog[1].limit
  /\ InOneWindow(rlLog[1].limit + 1)
  /\ rlLog[rlLog[1].limit + 1].at > rlLog[1].at
  /\ ~rlLog[rlLog[1].limit + 1].allowed

\* The orders in which n calls can be served one after another.
SerialOrders(n) ==
  {f \in [1..n -> 1..n] : \A i, j \in 1..n : f[i] = f[j] => i = j}

\* C17: when all of n concurrent check calls on one empty key have returned,
\* their results are those of the calls served one after another in some
\* order, so exactly min(n, limit) of them are allowed.
C17_AtomicPerKey ==
  (\A c \in DOMAIN rlCalls : rlCalls[c].pc = "returned")
    => /\ \E f \in SerialOrders(MaxLimiters) :
            \A c \in DOMAIN rlCalls :
              LET serial == RlResult(rlCalls[c].limit, rlCalls[c].window,
                                     rlCalls[c].now, f[c], rlCalls[c].now)
              IN /\ rlCalls[c].allowed = serial.allowed
                 /\ rlCalls[c].remaining = serial.remaining
                 /\ rlCalls[c].retryAfterSeconds = serial.retryAfterSeconds
       /\ Cardinality({c \in DOMAIN rlCalls : rlCalls[c].allowed})
            = Min(MaxLimiters, rlCalls[1].limit)

\* C18: the aggregate does not depend on the order of the evidence. The
\* persisted riskScore and riskLevel of a session are the aggregate and the
\* level of its rows taken in any order whatever, so two sessions (or two
\* runs) that record the same entries in different orders end up equal.
C18_OrderIndependent ==
  \A s \in Ids :
    botScores[s] # <<>> =>
      \A rows \in Orders(botScores[s]) :
        /\ riskScore[s] = AggregateScore(rows)
        /\ riskLevel[s] = RiskLevelOf(AggregateScore(rows))

C18_Witness ==
  \E s \in Ids :
    /\ Len(botScores[s]) >= 3
    /\ \A i, j \in 1..Len(botScores[s]) :
         i # j => botScores[s][i].layer # botScores[s][j].layer
    /\ riskScore[s] = AggregateScore(botScores[s])

\* C19: in every reachable state the persisted riskScore of every session
\* lies in [0, 100], also after captcha-pass evidence with score -20 has been
\* recorded on a session whose other scores are zero or small.
C19_ScoreInRange ==
  \A s \in Ids :
    /\ RatGeq(riskScore[s], 0)
    /\ riskScore[s].num <= ScoreCap * riskScore[s].den

PassiveActive ==
  {[layer |-> "passive", score |-> 20], [layer |-> "active", score |-> 30]}

OnlyPassiveActive(s) ==
  Len(botScores[s]) = 2 /\ Range(botScores[s]) = PassiveActive

\* C20 as stated: a session whose only evidence is passive 20 and active 30
\* has aggregate 30.8 and riskLevel MEDIUM.
C20_ExampleAsStated ==
  \A s \in Ids :
    OnlyPassiveActive(s) =>
      riskScore[s] = Ratio(308, 10) /\ riskLevel[s] = "MEDIUM"

\* C20: a session whose only evidence is passive 20 and active 30 has
\* aggregate (20 * 1.0 + 30 * 1.5) / (1.0 + 1.5) = 26, below the threshold
\* 30, and riskLevel LOW.
C20_PassiveActiveExample ==
  \A s \in Ids :
    OnlyPassiveActive(s) =>
      riskScore[s] = Rat(26) /\ riskLevel[s] = "LOW"

C20_Witness ==
  \E s \in Ids : OnlyPassiveActive(s) /\ riskScore[s] = Rat(26)

\* C21: when the addBotScore calls for a session have interleaved and all of
\* them have completed, the persisted riskScore of the session is the
\* weighted mean over every evidence row recorded for it.
C21_EventuallyConsistent ==
  \A s \in Ids :
    (botScores[s] # <<>> /\ \A c \in DOMAIN bsCalls : bsCalls[c].pc = "idle")
      => riskScore[s] = AggregateScore(botScores[s])

\* A session the auto-ban has dealt with: marked banned, status BANNED, gone
\* from the queue, and its address on the ban list for BanTtl minutes.
AutoBanned(s) ==
  /\ isBanned'[s]
  /\ status'[s] = "BANNED"
  /\ s \notin ZMembers(queue')
  /\ banList'[IpOf(s)] = now + BanTtl

\* C22 as stated: every session in the queue whose riskScore is at least the
\* high threshold is, when the next enforceChallenges tick completes, banned
\* with status BANNED, absent from the queue, and its address has a BanList
\* entry expiring 30 minutes later.
C22_BanOnThresholdAll ==
  [][EnforceChallenges =>
       \A s \in Ids :
         (status[s] = "IN_QUEUE" /\ RatGeq(riskScore[s], ThresholdHigh)
            /\ ~isBanned[s])
           => AutoBanned(s)]_vars

\* C22: the same, for a tick whose high-risk query matches no more sessions
\* than its take limit: then every session in the queue that has riskScore at
\* least the high threshold and is not yet marked banned is banned with status
\* BANNED, absent from the queue, and its address has a BanList entry expiring
\* 30 minutes later.
C22_BanOnThreshold ==
  [][(EnforceChallenges /\ Cardinality(HighRisk) <= HighRiskTake) =>
       \A s \in Ids :
         (status[s] = "IN_QUEUE" /\ RatGeq(riskScore[s], ThresholdHigh)
            /\ ~isBanned[s])
           => AutoBanned(s)]_vars

\* A session that joined with a score between the high threshold and the
\* join ban, never answered a captcha, and is banned: by enforceChallenges.
C22_Witness ==
  \E s \in Ids :
    /\ status[s] = "BANNED" /\ isBanned[s]
    /\ RatGeq(riskScore[s], ThresholdHigh) /\ RatLt(riskScore[s], JoinBanScore)
    /\ failedCount[s] = 0 /\ ~passedCaptcha[s]
    /\ s \notin ZMembers(queue)
    /\ banList[IpOf(s)] = now + BanTtl

NonTerminalHighRisk ==
  {s \in Ids : /\ status[s] \in {"ACTIVE", "IN_QUEUE", "CHALLENGED", "ADMITTED",
                                  "PURCHASING"}
               /\ RatGeq(riskScore[s], ThresholdHigh)
               /\ ~isBanned[s]}

\* C23: the auto-ban covers every non-terminal state. At an enforceChallenges
\* tick (with no more high-risk sessions than one tick takes), every session
\* with riskScore at least the high threshold whose status is ACTIVE,
\* IN_QUEUE, CHALLENGED, ADMITTED or PURCHASING is banned when the tick
\* completes.
C23_AutoBanNonTerminal ==
  [][(EnforceChallenges /\ Cardinality(NonTerminalHighRisk) <= HighRiskTake) =>
       \A s \in NonTerminalHighRisk :
         isBanned'[s] /\ status'[s] = "BANNED"]_vars

\* What the tick leaves alone: the record and the queue entry of a session.
KeepsStatusAndEntry(s) ==
  /\ status'[s] = status[s]
  /\ (s \in ZMembers(queue')) = (s \in ZMembers(queue))
  /\ positions'[s] = positions[s]

InRangeInQueue(s) ==
  /\ status[s] = "IN_QUEUE"
  /\ RatGeq(riskScore[s], ThresholdMedium)
  /\ RatLt(riskScore[s], ThresholdHigh)

\* C24 as stated: after an enforceChallenges tick every session that was
\* IN_QUEUE with riskScore in [medium, high) and no passed CaptchaAttempt is
\* CHALLENGED and absent from the queue, and one with a passed CaptchaAttempt
\* keeps its status and its queue entry.
C24_ChallengeEnforcementAll ==
  [][EnforceChallenges =>
       \A s \in Ids :
         InRangeInQueue(s) =>
           IF passedCaptcha[s] THEN KeepsStatusAndEntry(s)
           ELSE status'[s] = "CHALLENGED" /\ s \notin ZMembers(queue')]_vars

\* C24: the same for the sessions not marked banned, at a tick whose suspect
\* query matches no more sessions than its take limit.
C24_ChallengeEnforcement ==
  [][(EnforceChallenges /\ Cardinality(Suspects) <= SuspectTake) =>
       \A s \in Ids :
         (InRangeInQueue(s) /\ ~isBanned[s]) =>
           IF passedCaptcha[s] THEN KeepsStatusAndEntry(s)
           ELSE status'[s] = "CHALLENGED" /\ s \notin ZMembers(queue')]_vars

\* One session was challenged by the tick while another, in the same range
\* but with a passed captcha, is still queued.
C24_Witness ==
  \E s, u \in Ids :
    /\ status[s] = "CHALLENGED" /\ ~passedCaptcha[s] /\ failedCount[s] = 0
    /\ RatGeq(riskScore[s], ThresholdMedium)
    /\ RatLt(riskScore[s], ThresholdHigh)
    /\ s \notin ZMembers(queue)
    /\ InRangeInQueue(u) /\ passedCaptcha[u] /\ u \in ZMembers(queue)

UnseenFor(s, minutes) == now - lastSeenAt[s] > minutes

\* What a garbageCollectSessions tick owes each session: EXPIRED and out of
\* the queue for a queued or challenged one unseen for more than StaleQueued
\* minutes, EXPIRED for an ACTIVE one unseen for more than StaleActive
\* minutes, and nothing changed for any other.
Collected(s) ==
  IF status[s] \in {"IN_QUEUE", "CHALLENGED"} /\ UnseenFor(s, StaleQueued)
    THEN status'[s] = "EXPIRED" /\ s \notin ZMembers(queue')
  ELSE IF status[s] = "ACTIVE" /\ UnseenFor(s, StaleActive)
    THEN status'[s] = "EXPIRED"
  ELSE KeepsStatusAndEntry(s)

\* C25 as stated: once a garbageCollectSessions tick completes, every
\* IN_QUEUE or CHALLENGED session unseen for more than 2 minutes is EXPIRED
\* and absent from the queue, every ACTIVE session unseen for more than 5
\* minutes is EXPIRED, and sessions seen more recently are unchanged.
C25_SessionGcAll ==
  [][GarbageCollectSessions => \A s \in Ids : Collected(s)]_vars

\* C25: the same at a tick whose stale-session query matches no more
\* sessions than its take limit.
C25_SessionGc ==
  [][(GarbageCollectSessions /\ Cardinality(StaleSessions) <= StaleTake) =>
       \A s \in Ids : Collected(s)]_vars

\* One session was collected out of the queue, another, seen recently, is
\* still queued.
C25_Witness ==
  \E s, u \in Ids :
    /\ status[s] = "EXPIRED" /\ s \notin ZMembers(queue)
    /\ positions[s] = NoEntry /\ UnseenFor(s, StaleQueued)
    /\ status[u] = "IN_QUEUE" /\ u \in ZMembers(queue)
    /\ ~UnseenFor(u, StaleQueued)

TokenInThePast(s) ==
  /\ status[s] \in {"ADMITTED", "PURCHASING"}
  /\ accessTokenExpiresAt[s] # Null
  /\ accessTokenExpiresAt[s] < now

\* C26: after a cleanupExpiredTokens tick every session that was ADMITTED or
\* PURCHASING with accessTokenExpiresAt in the past is EXPIRED with
\* accessToken null, and every other session keeps its status and its token.
C26_TokenExpiry ==
  [][CleanupExpiredTokens =>
       \A s \in Ids :
         IF TokenInThePast(s)
           THEN status'[s] = "EXPIRED" /\ accessToken'[s] = NoToken
           ELSE status'[s] = status[s] /\ accessToken'[s] = accessToken[s]]_vars

\* One session lost its token to the tick; another, admitted later, holds a
\* token that has not expired.
C26_Witness ==
  \E s, u \in Ids :
    /\ status[s] = "EXPIRED" /\ accessToken[s] = NoToken
    /\ accessTokenExpiresAt[s] # Null /\ accessTokenExpiresAt[s] < now
    /\ status[u] \in {"ADMITTED", "PURCHASING"} /\ accessToken[u] # NoToken
    /\ accessTokenExpiresAt[u] >= now

TimersOf(task) == {h \in timers : h.task = task}

\* C27: after any sequence of start and stop calls each periodic task has
\* exactly one active timer if the last call was start and none if it was
\* stop; a second start while running registers nothing, and a start after a
\* stop registers the full set again.
C27_StartStop ==
  /\ lastCall = "start" => \A task \in Tasks : Cardinality(TimersOf(task)) = 1
  /\ lastCall = "stop" => timers = {}
  /\ (last.op = "start" /\ last.registered = 0) => starts > 0

\* A start that found the processor running, after a stop and a restart.
C27_Witness ==
  /\ last.op = "start" /\ last.registered = 0
  /\ starts = 2
  /\ \A task \in Tasks : Cardinality(TimersOf(task)) = 1

\* A candidate the admit loop has dealt with: out of the queue, and admitted
\* with a token unless it has no record or is banned.
Handled(m) ==
  /\ m \notin ZMembers(queue')
  /\ Admissible(m) => status'[m] = "ADMITTED" /\ accessToken'[m] # NoToken

\* C28: a body that throws on a tick is caught: the process goes on, the
\* timer of that task and of every other task stays scheduled, so each runs
\* on its next tick; and in processQueue a failure on one candidate leaves
\* the other candidates of the batch handled.
C28_FaultIsolation ==
  [][firings' = firings + 1 =>
       /\ ~crashed'
       /\ timers' = timers
       /\ (last'.task = "processQueue" /\ ~last'.threw) =>
            \A m \in Range(last'.batch) \ last'.failed : Handled(m)]_vars

\* The admit loop threw on an earlier tick and has run again: one candidate
\* of its batch failed, another was admitted, and every task is scheduled.
C28_Witness ==
  /\ "processQueue" \in thrown
  /\ last.task = "processQueue" /\ ~last.threw
  /\ last.failed # {} /\ Len(last.ids) > 0
  /\ \A task \in Tasks : TimersOf(task) # {}

RowDeleted(s) == HasRecord(s) /\ status'[s] = "DELETED"

ByRetentionPurge(s) ==
  /\ last'.op = "purgeOldData"
  /\ status[s] \in {"EXPIRED", "COMPLETED", "BANNED"}
  /\ s \in last'.old

Completions(s) ==
  {c \in DOMAIN buyCalls : buyCalls[c].pc = "200" /\ buyCalls[c].id = s}

\* C30: access tokens are one-time: for each admitted session at most one
\* purchase completion succeeds, and soldTickets is incremented at most once
\* per access token, also when two requests carrying the same token both pass
\* validateAccessToken before either calls completePurchase.
C30_OneTimeToken ==
  /\ \A s \in Ids : Cardinality(Completions(s)) <= 1
  /\ soldTickets <= Cardinality({s \in Ids : status[s] = "COMPLETED"})

Malformed(f) == f.kind = "number" \/ (f.kind = "list" /\ f.hasNull)

\* C31: a telemetry request for an existing session whose body holds a
\* malformed event field (a null element, or a non-list value) completes
\* without an error and records one evidence row for the behavior layer.
C31_MalformedInputDegrades ==
  [][(/\ last'.op = "POST /api/telemetry"
      /\ HasRecord(last'.id)
      /\ \E i \in 1..3 : Malformed(last'.body[i]))
     => /\ last'.code = 200
        /\ Len(botScores'[last'.id]) = Len(botScores[last'.id]) + 1]_vars

\* The used-challenge marker of ch, if Redis holds one that has not expired.
Marked(ch) == \E k \in LiveKeys(replay) : k.challenge = ch

WellSigned(ch) == ch.parts = 3 /\ ch.signature = Sign(ch.nonce, ch.timestamp)

\* C32: verifySolution checks format and signature, then expiry, then
\* replay, then difficulty: the reason it returns is that of the first check
\* that fails, and a call refused with invalid_challenge_format,
\* invalid_signature or challenge_expired leaves the used-challenge markers as
\* they were.
C32_CheckOrder ==
  [][Verified =>
       LET ch == last'.challenge
       IN /\ ch.parts # 3 => last'.reason = "invalid_challenge_format"
          /\ (ch.parts = 3 /\ ~WellSigned(ch))
               => last'.reason = "invalid_signature"
          /\ (WellSigned(ch) /\ ChallengeExpired(ch))
               => last'.reason = "challenge_expired"
          /\ (WellSigned(ch) /\ ~ChallengeExpired(ch) /\ Marked(ch))
               => last'.reason = "challenge_already_used"
          /\ (WellSigned(ch) /\ ~ChallengeExpired(ch) /\ ~Marked(ch))
               => last'.reason \in {"insufficient_difficulty", "valid"}
          /\ last'.reason \in {"invalid_challenge_format", "invalid_signature",
                                "challenge_expired"}
               => replay' = replay]_vars

\* A generated challenge that holds no marker has just been refused as
\* expired, and no marker was written for it.
C32_Witness ==
  /\ last.op = "verifySolution"
  /\ last.reason = "challenge_expired"
  /\ last.challenge \in challenges
  /\ ~\E k \in replay : k.challenge = last.challenge

\* C33 as stated: after verifySolution has returned insufficient_difficulty
\* on a challenge, every later verifySolution on it returns
\* challenge_already_used.
C33_SpentAlreadyUsed ==
  [][(Verified /\ last'.challenge \in spent)
       => (~last'.valid /\ last'.reason = "challenge_already_used")]_vars

\* C33: after verifySolution has returned insufficient_difficulty on a
\* challenge, every later verifySolution on it, whatever its nonce, is
\* refused: with challenge_already_used while the challenge is within its
\* TTL and with challenge_expired afterwards; the challenge never produces a
\* success.
C33_FailedAttemptConsumes ==
  [][(Verified /\ last'.challenge \in spent)
       => /\ ~last'.valid
          /\ last'.reason = IF ChallengeExpired(last'.challenge)
                              THEN "challenge_expired"
                              ELSE "challenge_already_used"
          /\ last'.challenge \notin solved']_vars

\* A challenge that failed on difficulty before, and was never found valid,
\* has just been refused as already used.
C33_Witness ==
  /\ last.op = "verifySolution"
  /\ last.challenge \in spent
  /\ last.reason = "challenge_already_used"
  /\ last.challenge \notin solved

\* Call k on the key was rejected and call k + 1, the next call on the key,
\* was made once the retryAfterSeconds of call k had elapsed.
WaitedAfter(k) ==
  /\ k + 1 <= Len(rlLog)
  /\ ~rlLog[k].allowed
  /\ rlLog[k + 1].at >= rlLog[k].at + rlLog[k].retryAfterSeconds * 1000

\* C34: with a limit of at least 1, a caller whose check call on a key is
\* rejected with retryAfterSeconds = r, and who makes no further call on the
\* key until r seconds have elapsed, is allowed on its next call.
C34_RetryAfterHonoured ==
  \A k \in 1..Len(rlLog) :
    (rlLog[k].limit >= 1 /\ WaitedAfter(k)) => rlLog[k + 1].allowed

\* No join request is between its session record and its decision.
Quiescent == joinPending = {}

\* C35: in every quiescent state a session has status IN_QUEUE if and only
\* if its id is a member of the ordered queue; a CHALLENGED session that
\* passes the captcha and is returned to IN_QUEUE is a member again.
C35_QueueMatchesStatus ==
  Quiescent =>
    \A s \in Ids : (status[s] = "IN_QUEUE") <=> (s \in ZMembers(queue))

FullyAdmitted(m) ==
  /\ m \notin ZMembers(queue)
  /\ admitted[m] # NoToken
  /\ status[m] = "ADMITTED"
  /\ accessToken[m] = admitted[m]
  /\ accessTokenExpiresAt[m] # Null

StillQueued(m) == m \in ZMembers(queue) /\ admitted[m] = NoToken

\* C37: when a store operation fails while processQueue handles a candidate,
\* the candidate is afterwards either fully admitted (out of the queue, in
\* the admitted map, status ADMITTED with token and expiry) or still in the
\* queue with no admitted-map entry.
C37_AdmissionAllOrNothing ==
  [][(last'.op = "tick" /\ last'.task = "processQueue")
       => \A m \in last'.failed \cap Ids :
            FullyAdmitted(m)' \/ StillQueued(m)']_vars

Waiting(s) == isRunning /\ s \in ZMembers(queue) /\ status[s] = "IN_QUEUE"

C38_AdmittedOnlyWhileValid ==
  \A s \in Ids :
    GetQueueStatus(s).status = "admitted"
      => /\ status[s] \in {"ADMITTED", "PURCHASING"}
         /\ ~TokenExpired(s)

HoldsValidToken(s) ==
  /\ status[s] = "ADMITTED"
  /\ accessToken[s] # NoToken
  /\ ~TokenExpired(s)

\* C39: a session that processQueue admitted after garbageCollectSessions or
\* enforceChallenges selected it is not overwritten to EXPIRED or CHALLENGED
\* by that task while it holds a valid access token.
C39_NoClobber ==
  [][\A s \in Ids :
       HoldsValidToken(s) => status'[s] \notin {"EXPIRED", "CHALLENGED"}]_vars

\* The challenges a verifySolution call has got as far as marking.
VerifiedOnce == solved \cup spent

\* C40: a challenge that was verified once is at no instant both unexpired
\* and unmarked, and no challenge is found valid a second time, also after
\* its marker has expired.
C40_MarkerOutlivesChallenge ==
  [][/\ \A ch \in VerifiedOnce' : ~ChallengeExpired(ch)' => Marked(ch)'
     /\ (Verified /\ last'.challenge \in solved) => ~last'.valid]_vars

\* A challenge found valid at its own timestamp has been presented again at
\* the last instant of its lifetime and refused as already used.
C40_Witness ==
  /\ last.op = "verifySolution"
  /\ last.challenge \in solved
  /\ now = last.challenge.timestamp + PowTtl
  /\ last.reason = "challenge_already_used"

====
